---- MODULE Spec2Model ----
(***************************************************************************)
(* Lead qualification, ticket triage and complaint classification          *)
(* pipelines of langgraph-salesforce-sap-demo: the linear LangGraph         *)
(* workflows (src/src/graphs), the rule-based scorer (src/src/tools/        *)
(* scoring.py), the rule-based ticket classifier (src/src/tools/kb.py) and  *)
(* the LLM wrappers (src/src/tools/llm.py).                                 *)
(*                                                                         *)
(* Numbers.  Scores are integers in units of 1/10000 (the scorer rounds to *)
(* 4 decimals); component scores and weights of SCORING_WEIGHTS are in      *)
(* hundredths, so score * weight is again in units of 1/10000.  Classifier  *)
(* confidences are in units of 1/1000 (kb.py rounds to 3 decimals).         *)
(*                                                                         *)
(* Text.  A subject or description is a sequence of lower-case words; the   *)
(* regular expressions of CATEGORY_PATTERNS are evaluated on the words      *)
(* (\b is a word edge, \s+ the gap between two consecutive words).          *)
(*                                                                         *)
(* Dicts.  A Python dict is a function from its keys; {} is EmptyDict.      *)
(***************************************************************************)
EXTENDS Integers, Sequences, FiniteSets, TLC

VARIABLES
    pipeline,       \* which graph runs: "lead", "ticket", "complaint" ("none": no run)
    pc,             \* the node the run executes next, "END", or "FAILED" (a node raised)
    state,          \* the WorkflowState of the run (LeadState / TicketState / ComplaintState)
    state2,         \* the WorkflowState of a second, independent lead run (SpecPair)
    executed,       \* history: the nodes that have completed, in order
    updates,        \* history: the update each completed node returned, in order
    smart_calls,    \* history: how many times the *_with_llm function was invoked
    chain_outcome,  \* history: what the LLM chain did when invoked ("none": not invoked)
    fn,             \* pure-function harness: the function under test
    args,           \* pure-function harness: its arguments
    result,         \* pure-function harness: its result (EmptyDict before the call)
    access_token,   \* salesforce.py module global _access_token ("None": unset)
    instance_url,   \* salesforce.py module global _instance_url ("None": unset)
    threads         \* concurrent requests: per thread its position, WorkflowState, history

vars == <<pipeline, pc, state, state2, executed, updates, smart_calls,
          chain_outcome, fn, args, result, access_token, instance_url, threads>>

runVars == <<pipeline, pc, state, state2, executed, updates, smart_calls,
             chain_outcome>>

harnessVars == <<fn, args, result>>

moduleVars == <<access_token, instance_url, threads>>

(* no concurrent requests: the module globals are as at import, no thread *)
ModuleIdle ==
    /\ access_token = "None"
    /\ instance_url = "None"
    /\ threads = <<>>

----------------------------------------------------------------------------
(* Python dict helpers *)

EmptyDict == [k \in {} |-> 0]

Get(d, k, default) == IF k \in DOMAIN d THEN d[k] ELSE default

Truthy(d) == DOMAIN d # {}

Max(S) == CHOOSE x \in S : \A y \in S : y <= x

Min2(a, b) == IF a <= b THEN a ELSE b

RECURSIVE Flatten(_)
Flatten(ss) == IF ss = <<>> THEN <<>> ELSE Head(ss) \o Flatten(Tail(ss))

IsPrefix(s, t) == Len(s) <= Len(t) /\ \A i \in 1..Len(s) : s[i] = t[i]

----------------------------------------------------------------------------
(* scoring.py: rule-based lead scoring *)

Unit == 10000

SCORING_WEIGHTS ==
    [ employees |-> [ ranges |-> << <<1000, 100>>, <<500, 90>>, <<100, 70>>,
                                    <<50, 50>>, <<10, 30>>, <<0, 10>> >>,
                      weight |-> 20 ],
      revenue   |-> [ ranges |-> << <<10000000, 100>>, <<5000000, 90>>, <<1000000, 70>>,
                                    <<500000, 50>>, <<100000, 30>>, <<0, 10>> >>,
                      weight |-> 20 ],
      rating    |-> [ values |-> [ Hot |-> 100, Warm |-> 70, Cold |-> 30 ],
                      default |-> 50,
                      weight |-> 25 ],
      source    |-> [ values |-> ( "Customer Referral" :> 100 @@ "Partner" :> 90 @@
                                   "Employee Referral" :> 85 @@ "Web" :> 70 @@
                                   "Webinar" :> 65 @@ "Trade Show" :> 60 @@
                                   "Advertisement" :> 50 @@ "Cold Call" :> 40 @@
                                   "Other" :> 30 ),
                      default |-> 50,
                      weight |-> 15 ],
      title     |-> [ keywords |-> ( "ceo" :> 100 @@ "cto" :> 100 @@ "cfo" :> 100 @@
                                     "cio" :> 100 @@ "chief" :> 100 @@ "president" :> 95 @@
                                     "owner" :> 95 @@ "founder" :> 95 @@ "vp" :> 85 @@
                                     "vice president" :> 85 @@ "director" :> 75 @@
                                     "head" :> 75 @@ "senior" :> 65 @@ "manager" :> 55 @@
                                     "lead" :> 50 @@ "engineer" :> 40 @@ "analyst" :> 35 ),
                      default |-> 30,
                      weight |-> 10 ],
      sap_enrichment |-> [ has_bp |-> 500, good_credit |-> 500, active_customer |-> 500 ] ]

(* `keyword in title_lower` (scoring.py:124), evaluated for the titles of the
   model: the keywords that occur as substrings of the lower-cased title.
   "director" contains "cto"; "vice president" contains "president". *)
KeywordsInTitle(title) ==
    CASE title = "CTO"               -> {"cto"}
      [] title = "Chief of Staff"    -> {"chief"}
      [] title = "Owner"             -> {"owner"}
      [] title = "VP Sales"          -> {"vp"}
      [] title = "VP of Engineering" -> {"vp", "engineer"}
      [] title = "Vice President"    -> {"president", "vice president"}
      [] title = "Director"          -> {"cto", "director"}
      [] title = "Senior Consultant" -> {"senior"}
      [] title = "Manager"           -> {"manager"}
      [] title = "Team Lead"         -> {"lead"}
      [] title = "Engineer"          -> {"engineer"}
      [] title = "Analyst"           -> {"analyst"}
      [] OTHER                       -> {}

RECURSIVE ScoreRangeFrom(_, _, _)
ScoreRangeFrom(value, ranges, i) ==
    IF i > Len(ranges) THEN 0
    ELSE IF value >= ranges[i][1] THEN ranges[i][2]
    ELSE ScoreRangeFrom(value, ranges, i + 1)

score_range(value, ranges) == ScoreRangeFrom(value, ranges, 1)

score_title(title) ==
    IF title = "" THEN SCORING_WEIGHTS.title.default
    ELSE LET keywords == SCORING_WEIGHTS.title.keywords
             hits == { keywords[k] : k \in KeywordsInTitle(title) }
             best_score == IF hits = {} THEN 0 ELSE Max(hits)
         IN  IF best_score > 0 THEN best_score ELSE SCORING_WEIGHTS.title.default

base_score_of(lead) ==
    LET employees == Get(lead, "NumberOfEmployees", 0)
        revenue == Get(lead, "AnnualRevenue", 0)
        rating == Get(lead, "Rating", "")
        source == Get(lead, "LeadSource", "")
        title == Get(lead, "Title", "")
        emp_config == SCORING_WEIGHTS.employees
        rev_config == SCORING_WEIGHTS.revenue
        rat_config == SCORING_WEIGHTS.rating
        src_config == SCORING_WEIGHTS.source
        title_config == SCORING_WEIGHTS.title
    IN  score_range(employees, emp_config.ranges) * emp_config.weight
      + score_range(revenue, rev_config.ranges) * rev_config.weight
      + Get(rat_config.values, rating, rat_config.default) * rat_config.weight
      + Get(src_config.values, source, src_config.default) * src_config.weight
      + score_title(title) * title_config.weight

sap_bonus_of(enriched) ==
    IF ~Truthy(enriched) THEN 0
    ELSE LET sap_config == SCORING_WEIGHTS.sap_enrichment
         IN  (IF Get(enriched, "business_partner_id", "") # "" THEN sap_config.has_bp ELSE 0)
           + (IF Get(enriched, "credit_rating", "") \in {"A", "A+"}
              THEN sap_config.good_credit ELSE 0)
           + (IF Get(enriched, "account_status", "") = "Active"
              THEN sap_config.active_customer ELSE 0)

calculate_lead_score_uncapped(lead, enriched) ==
    [ total_score |-> base_score_of(lead) + sap_bonus_of(enriched),
      base_score  |-> base_score_of(lead),
      sap_bonus   |-> sap_bonus_of(enriched),
      components  |-> <<"employees", "revenue", "rating", "source", "title", "sap_bonus">> ]

calculate_lead_score(lead, enriched) ==
    [ total_score |-> Min2(base_score_of(lead) + sap_bonus_of(enriched), Unit),
      base_score  |-> base_score_of(lead),
      sap_bonus   |-> sap_bonus_of(enriched),
      components  |-> <<"employees", "revenue", "rating", "source", "title", "sap_bonus">> ]

(* f"{score:.2f}" (scoring.py:259): the score rounded to hundredths. *)
FormatScore2(score) == ToString((score + 50) \div 100)

determine_routing_open(score) ==
    IF score > 7500
    THEN [ owner_type |-> "AE", priority |-> "P1",
           reason |-> "High-value lead (score: " \o FormatScore2(score)
                      \o ") - immediate AE engagement" ]
    ELSE IF score > 4500
    THEN [ owner_type |-> "SDR", priority |-> "P2",
           reason |-> "Qualified lead (score: " \o FormatScore2(score)
                      \o ") - SDR qualification needed" ]
    ELSE [ owner_type |-> "Nurture", priority |-> "P3",
           reason |-> "Early-stage lead (score: " \o FormatScore2(score)
                      \o ") - nurture campaign" ]

determine_routing(score) ==
    IF score >= 7500
    THEN [ owner_type |-> "AE", priority |-> "P1",
           reason |-> "High-value lead (score: " \o FormatScore2(score)
                      \o ") - immediate AE engagement" ]
    ELSE IF score >= 4500
    THEN [ owner_type |-> "SDR", priority |-> "P2",
           reason |-> "Qualified lead (score: " \o FormatScore2(score)
                      \o ") - SDR qualification needed" ]
    ELSE [ owner_type |-> "Nurture", priority |-> "P3",
           reason |-> "Early-stage lead (score: " \o FormatScore2(score)
                      \o ") - nurture campaign" ]

----------------------------------------------------------------------------
(* kb.py: rule-based ticket categorisation *)

(* A pattern is a set of alternatives; an alternative is a sequence of word
   sets that must match consecutive words of the text. *)
CATEGORY_PATTERNS ==
    << [ name |-> "security",
         patterns |-> <<
            { << {"hack", "breach", "unauthorized", "suspicious", "security"} >> },
            { << {"attack", "compromise", "intrusion", "malware", "virus"} >> },
            { << {"phishing", "scam", "fraud", "identity"} >> },
            { << {"unauthorized"}, {"access"} >> },
            { << {"security"}, {"concern", "issue", "problem", "alert"} >> } >>,
         priority_boost |-> TRUE,
         weight |-> 100 ],
       [ name |-> "outage",
         patterns |-> <<
            { << {"down", "outage", "unavailable"} >>, << {"not"}, {"working"} >> },
            { << {"error", "crash", "fail", "broken"} >> },
            { << {"urgent", "emergency", "critical", "production"} >> },
            { << {"system"}, {"down"} >>, << {"system"}, {"not"}, {"responding"} >> },
            { << {"cant", "can't"}, {"access", "connect", "reach", "load"} >> } >>,
         priority_boost |-> TRUE,
         weight |-> 95 ],
       [ name |-> "billing",
         patterns |-> <<
            { << {"invoice", "bill", "charge", "payment"} >> },
            { << {"price", "cost", "fee", "discount"} >> },
            { << {"refund", "credit", "overcharge"} >> },
            { << {"subscription", "renewal", "cancel"} >> },
            { << {"discrepancy"} >> } >>,
         priority_boost |-> FALSE,
         weight |-> 85 ],
       [ name |-> "howto",
         patterns |-> <<
            { << {"how"}, {"do", "can", "to"} >>, << {"what"}, {"is"} >> },
            { << {"help", "guide", "tutorial", "instructions"} >> },
            { << {"setup", "configure", "enable", "disable"} >> },
            { << {"password", "login", "account", "profile"} >> },
            { << {"step"}, {"by"}, {"step"} >>, << {"step-by-step"} >>,
              << {"stepbystep"} >> } >>,
         priority_boost |-> FALSE,
         weight |-> 70 ] >>

(* str.lower() on the words of the model *)
Lower(word) ==
    CASE word = "URGENT" -> "urgent"
      [] word = "DOWN"   -> "down"
      [] OTHER           -> word

LowerText(text) == [ i \in 1..Len(text) |-> Lower(text[i]) ]

(* re.search(pattern, text, re.IGNORECASE) *)
re_search(pattern, text) ==
    \E alt \in pattern : \E i \in 1..Len(text) :
        /\ i + Len(alt) - 1 <= Len(text)
        /\ \A j \in 1..Len(alt) : Lower(text[i + j - 1]) \in alt[j]

MatchedPatterns(config, text) ==
    { p \in 1..Len(config.patterns) : re_search(config.patterns[p], text) }

NormalizedScoreUnweighted(config, text) ==
    (Cardinality(MatchedPatterns(config, text)) * 1000) \div Len(config.patterns)

(* (score / len(patterns)) * weight, in units of 1/1000 *)
NormalizedScore(config, text) ==
    (Cardinality(MatchedPatterns(config, text)) * config.weight * 10)
        \div Len(config.patterns)

(* max(category_scores, key=category_scores.get): the dict is iterated in
   insertion order and a later key replaces the best only if strictly greater *)
RECURSIVE MaxKeyFrom(_, _, _)
MaxKeyFrom(text, i, best) ==
    IF i > Len(CATEGORY_PATTERNS) THEN best
    ELSE LET config == CATEGORY_PATTERNS[i]
             scored == MatchedPatterns(config, text) # {}
         IN  IF scored /\ ( best = 0 \/ NormalizedScore(config, text)
                                          > NormalizedScore(CATEGORY_PATTERNS[best], text) )
             THEN MaxKeyFrom(text, i + 1, i)
             ELSE MaxKeyFrom(text, i + 1, best)

categorize_ticket(subject, description) ==
    LET text == LowerText(subject \o description)
        best == MaxKeyFrom(text, 1, 0)
        category_scores ==
            [ i \in { k \in 1..Len(CATEGORY_PATTERNS) :
                         MatchedPatterns(CATEGORY_PATTERNS[k], text) # {} }
                |-> NormalizedScore(CATEGORY_PATTERNS[i], text) ]
    IN  IF best # 0
        THEN [ category |-> CATEGORY_PATTERNS[best].name,
               confidence |-> category_scores[best],
               all_scores |-> category_scores,
               matched_patterns |-> MatchedPatterns(CATEGORY_PATTERNS[best], text),
               requires_escalation |-> CATEGORY_PATTERNS[best].priority_boost ]
        ELSE [ category |-> "other",
               confidence |-> 500,
               all_scores |-> category_scores,
               matched_patterns |-> {},
               requires_escalation |-> FALSE ]

----------------------------------------------------------------------------
(* LangGraph state channels (models/state.py): actions_done is declared
   Annotated[list[str], add], every other key is a plain (last-value) channel. *)

MergeReplaceAll(st, update) ==
    [ k \in DOMAIN st \cup DOMAIN update |-> IF k \in DOMAIN update THEN update[k] ELSE st[k] ]

(* a state update that merges dict-valued fields key by key instead of
   replacing them *)
MergeKeyWise(st, update) ==
    [ k \in DOMAIN st \cup DOMAIN update |->
        IF k \in DOMAIN update
        THEN IF k = "actions_done" /\ k \in DOMAIN st
             THEN st[k] \o update[k]
             ELSE IF k \in {"route", "decision", "llm_analysis", "classification",
                            "enriched", "sap_context"} /\ k \in DOMAIN st
             THEN [ j \in DOMAIN st[k] \cup DOMAIN update[k] |->
                      IF j \in DOMAIN update[k] THEN update[k][j] ELSE st[k][j] ]
             ELSE update[k]
        ELSE st[k] ]

Merge(st, update) ==
    [ k \in DOMAIN st \cup DOMAIN update |->
        IF k \in DOMAIN update
        THEN IF k = "actions_done" /\ k \in DOMAIN st
             THEN st[k] \o update[k]
             ELSE update[k]
        ELSE st[k] ]

(* What a node does: it returns an update, or it raises.  calls counts the
   invocations of the *_with_llm function, chain names what the LLM chain did. *)
Ok(update) == [ raised |-> FALSE, update |-> update, calls |-> 0, chain |-> "none" ]

Raise == [ raised |-> TRUE, update |-> EmptyDict, calls |-> 0, chain |-> "none" ]

WithCall(res, chain) == [ res EXCEPT !.calls = 1, !.chain = chain ]

(* JSON values an LLM chain can produce: the Python type decides whether a
   format spec, a slice or a join raises. *)
JNum(n) == [ type |-> "number", val |-> n ]

JStr(s) == [ type |-> "string", val |-> s ]

JList(l) == [ type |-> "list", val |-> l ]

JBool(b) == [ type |-> "bool", val |-> b ]

JNull == [ type |-> "null", val |-> "None" ]

CanFormatFloat(v) == v.type \in {"number", "bool"}

CanSlice(v) == v.type \in {"string", "list"}

CanIterate(v) == v.type \in {"string", "list"}

----------------------------------------------------------------------------
(* config.py: RoutingSettings / ResendSettings as deployed *)

RoutingConfig ==
    [ ae_owner_id |-> "005AE", sdr_owner_id |-> "005SDR",
      nurture_owner_id |-> "005NUR", escalation_owner_id |-> "005ESC" ]

ResendConfig ==
    [ notification_email |-> "notify@example.com",
      product_expert_email |-> "product@example.com",
      services_agent_email |-> "",
      it_support_url |-> "https://support.belden.com/it" ]

----------------------------------------------------------------------------
(* Records of the model *)

LeadHot ==
    [ Id |-> "00Q1", Name |-> "Ada", Company |-> "Acme", Title |-> "CTO",
      Industry |-> "Technology", LeadSource |-> "Partner", Rating |-> "Hot",
      AnnualRevenue |-> 600000000, NumberOfEmployees |-> 12000 ]

LeadCold ==
    [ Id |-> "00Q2", Name |-> "Bob", Company |-> "Tiny", Title |-> "Analyst",
      Industry |-> "Retail", LeadSource |-> "Cold Call", Rating |-> "Cold",
      AnnualRevenue |-> 50000, NumberOfEmployees |-> 5 ]

LeadMid ==
    [ Id |-> "00Q3", Name |-> "Cy", Company |-> "Midco", Title |-> "Manager",
      Industry |-> "Energy", LeadSource |-> "Web", Rating |-> "Warm",
      AnnualRevenue |-> 1000000, NumberOfEmployees |-> 100 ]

LeadNoCompany == [ Id |-> "00Q4", Name |-> "Di", Title |-> "Engineer", Rating |-> "Warm" ]

(* lead_data of a request is any dict: this one carries no Id *)
LeadNoId ==
    [ Name |-> "Eve", Company |-> "Acme", Title |-> "CTO", Rating |-> "Hot",
      NumberOfEmployees |-> 12000 ]

InputLeads == {EmptyDict, LeadHot, LeadCold, LeadNoCompany, LeadNoId}

(* salesforce.get_new_leads(limit=1): raises, returns [] or one record *)
SfLeadResults ==
    { [ fail |-> TRUE, records |-> <<>> ],
      [ fail |-> FALSE, records |-> <<>> ],
      [ fail |-> FALSE, records |-> <<LeadMid>> ] }

(* sap.get_business_partner / sap.get_sales_orders: what SAP answers *)
SapLeadResults == {"bp_fail", "bp_not_found", "bp_good", "bp_poor", "orders_fail"}

SapBusinessPartner(sap) ==
    CASE sap = "bp_good" ->
            [ BusinessPartner |-> "BP1001", BusinessPartnerFullName |-> "Acme",
              CreditRating |-> "A+", AccountStatus |-> "Active" ]
      [] sap \in {"bp_poor", "orders_fail"} ->
            [ BusinessPartner |-> "BP2002", BusinessPartnerFullName |-> "Tiny",
              CreditRating |-> "B", AccountStatus |-> "Review" ]
      [] OTHER -> EmptyDict

SapSalesOrders(sap) ==
    CASE sap = "bp_good" ->
            << [ SalesOrder |-> "SO1", SoldToParty |-> "BP1001", TotalNetAmount |-> 70000,
                 OverallSDProcessStatus |-> "A" ],
               [ SalesOrder |-> "SO2", SoldToParty |-> "BP1001", TotalNetAmount |-> 30000,
                 OverallSDProcessStatus |-> "C" ] >>
      [] OTHER -> <<>>

RECURSIVE SumNet(_)
SumNet(orders) ==
    IF orders = <<>> THEN 0 ELSE Head(orders).TotalNetAmount + SumNet(Tail(orders))

(* sap.extract_enrichment_data; the keys no node reads (payment_terms,
   last_order_date, customer_since, industry_segment) are left out *)
extract_enrichment_data(bp_data, orders) ==
    IF ~Truthy(bp_data) THEN EmptyDict
    ELSE [ business_partner_id |-> Get(bp_data, "BusinessPartner", ""),
           business_partner_name |-> Get(bp_data, "BusinessPartnerFullName", ""),
           credit_rating |-> Get(bp_data, "CreditRating", ""),
           total_orders |-> Len(orders),
           total_revenue |-> SumNet(orders),
           open_orders |-> Cardinality({ i \in 1..Len(orders) :
                               orders[i].OverallSDProcessStatus \in {"A", "B"} }),
           account_status |-> Get(bp_data, "AccountStatus", "") ]

(* What the lead scoring chain (prompt | llm | parser) does when invoked *)
LeadChainOutcomes ==
    {"raise", "nonmapping", "complete", "above_one", "below_zero", "low_but_p1",
     "only_reasoning", "score_is_text", "reasoning_is_null"}

LeadChain(outcome) ==
    LET full(score, priority) ==
            [ score |-> JNum(score), confidence |-> JNum(8500), priority |-> JStr(priority),
              reasoning |-> JStr("Strong fit"), key_factors |-> JList(<<"size", "title">>),
              recommended_action |-> JStr("Call today") ]
    IN  CASE outcome = "raise"      -> [ kind |-> "raise", out |-> EmptyDict ]
          [] outcome = "nonmapping" -> [ kind |-> "nonmapping", out |-> EmptyDict ]
          [] outcome = "complete"   -> [ kind |-> "mapping", out |-> full(9000, "P1") ]
          [] outcome = "above_one"  -> [ kind |-> "mapping", out |-> full(15000, "P1") ]
          [] outcome = "below_zero" -> [ kind |-> "mapping", out |-> full(0 - 2000, "P3") ]
          [] outcome = "low_but_p1" -> [ kind |-> "mapping", out |-> full(3300, "P1") ]
          [] outcome = "only_reasoning" ->
                [ kind |-> "mapping", out |-> [ reasoning |-> JStr("Looks fine") ] ]
          [] outcome = "score_is_text" ->
                [ kind |-> "mapping",
                  out |-> [ full(0, "P2") EXCEPT !.score = JStr("high") ] ]
          [] outcome = "reasoning_is_null" ->
                [ kind |-> "mapping",
                  out |-> [ full(6200, "P2") EXCEPT !.reasoning = JNull ] ]

----------------------------------------------------------------------------
(* llm.py: score_lead_with_llm.  Everything from the chain call to the result
   logging sits in one try; its except returns the fixed fallback dict. *)

LeadScoreFallback ==
    [ score |-> JNum(5000), confidence |-> JNum(0), priority |-> JStr("P2"),
      reasoning |-> JStr("[FALLBACK] LLM scoring encountered an error"),
      key_factors |-> JList(<<"Error in LLM processing", "Requires manual review">>),
      recommended_action |-> JStr("Manual qualification required - contact SDR team") ]

score_lead_with_llm(lead, enriched, chain) ==
    IF chain.kind # "mapping" THEN LeadScoreFallback
    ELSE LET r == chain.out
             filled ==
                [ score |-> Get(r, "score", JNum(5000)),
                  confidence |-> Get(r, "confidence", JNum(7000)),
                  priority |-> Get(r, "priority", JStr("P2")),
                  reasoning |-> Get(r, "reasoning", JStr("No reasoning provided by LLM")),
                  key_factors |-> Get(r, "key_factors", JList(<<"LLM analysis completed">>)),
                  recommended_action |->
                      Get(r, "recommended_action", JStr("Follow up with lead based on score")) ]
         IN  IF /\ CanFormatFloat(filled.score)
                /\ CanFormatFloat(filled.confidence)
                /\ CanIterate(filled.key_factors)
             THEN filled
             ELSE LeadScoreFallback

----------------------------------------------------------------------------
(* graphs/lead_graph.py: the nodes *)

fetch_lead(st, sf) ==
    LET lead == Get(st, "lead", EmptyDict)
    IN  IF Truthy(lead) /\ Get(lead, "Id", "") # ""
        THEN Ok([ actions_done |-> << "fetch_lead:existing:" \o lead.Id >> ])
        ELSE IF sf.fail THEN Raise
        ELSE IF sf.records = <<>>
        THEN Ok([ lead |-> EmptyDict, actions_done |-> << "fetch_lead:none_found" >> ])
        ELSE Ok([ lead |-> sf.records[1],
                  actions_done |-> << "fetch_lead:fetched:" \o sf.records[1].Id >> ])

(* an enrich_lead whose update also carries the lead it read *)
enrich_lead_returning_lead(st, sap) ==
    LET lead == Get(st, "lead", EmptyDict)
        company == Get(lead, "Company", "")
        bp_data == SapBusinessPartner(sap)
        bp_id == Get(bp_data, "BusinessPartner", "")
        orders == IF bp_id # "" THEN SapSalesOrders(sap) ELSE <<>>
    IN  IF company = ""
        THEN Ok([ enriched |-> EmptyDict, actions_done |-> << "enrich_lead:no_company" >> ])
        ELSE IF sap = "bp_fail" THEN Raise
        ELSE IF ~Truthy(bp_data)
        THEN Ok([ enriched |-> EmptyDict,
                  actions_done |-> << "enrich_lead:bp_not_found:" \o company >> ])
        ELSE IF bp_id # "" /\ sap = "orders_fail" THEN Raise
        ELSE Ok([ lead |-> [ lead EXCEPT !.Company = bp_data.BusinessPartnerFullName ],
                  enriched |-> extract_enrichment_data(bp_data, orders),
                  actions_done |-> << "enrich_lead:success:bp=" \o bp_id \o ":orders="
                                      \o ToString(Len(orders)) >> ])

enrich_lead(st, sap) ==
    LET lead == Get(st, "lead", EmptyDict)
        company == Get(lead, "Company", "")
        bp_data == SapBusinessPartner(sap)
        bp_id == Get(bp_data, "BusinessPartner", "")
        orders == IF bp_id # "" THEN SapSalesOrders(sap) ELSE <<>>
    IN  IF company = ""
        THEN Ok([ enriched |-> EmptyDict, actions_done |-> << "enrich_lead:no_company" >> ])
        ELSE IF sap = "bp_fail" THEN Raise
        ELSE IF ~Truthy(bp_data)
        THEN Ok([ enriched |-> EmptyDict,
                  actions_done |-> << "enrich_lead:bp_not_found:" \o company >> ])
        ELSE IF bp_id # "" /\ sap = "orders_fail" THEN Raise
        ELSE Ok([ enriched |-> extract_enrichment_data(bp_data, orders),
                  actions_done |-> << "enrich_lead:success:bp=" \o bp_id \o ":orders="
                                      \o ToString(Len(orders)) >> ])

(* the rule-based tail of score_lead (lead_graph.py:175-196) *)
score_lead_rules(lead, enriched) ==
    LET score_result == calculate_lead_score(lead, enriched)
        total_score == score_result.total_score
    IN  [ score |-> total_score,
          llm_analysis |->
              [ reasoning |-> "Rule-based scoring. Base: "
                              \o FormatScore2(score_result.base_score) \o ", SAP bonus: "
                              \o FormatScore2(score_result.sap_bonus),
                confidence |-> Unit,
                key_factors |-> SubSeq(score_result.components, 1, 3),
                recommended_action |-> "Follow standard lead handling process",
                model_used |-> "rule-based" ],
          actions_done |-> << "score_lead:rules:score=" \o ToString(total_score) >> ]

(* the LLM branch of score_lead (lead_graph.py:145-173): TRUE when one of its
   statements raises, which the except clause turns into the rule-based tail *)
score_lead_llm_raises(llm_result) ==
    \/ ~CanFormatFloat(llm_result.score)
    \/ ~CanFormatFloat(llm_result.confidence)
    \/ ~CanSlice(llm_result.key_factors)
    \/ ~CanSlice(llm_result.reasoning)

score_lead_no_except(st, outcome) ==
    LET lead == Get(st, "lead", EmptyDict)
        enriched == Get(st, "enriched", EmptyDict)
        llm_result == score_lead_with_llm(lead, enriched, LeadChain(outcome))
    IN  IF ~Truthy(lead)
        THEN Ok([ score |-> 0,
                  llm_analysis |-> [ reasoning |-> "No lead data provided" ],
                  actions_done |-> << "score_lead:no_lead" >> ])
        ELSE IF Get(st, "use_llm", FALSE) /\ score_lead_llm_raises(llm_result)
        THEN WithCall(Raise, outcome)
        ELSE IF Get(st, "use_llm", FALSE)
        THEN WithCall(Ok([ score |-> llm_result.score.val,
                           llm_analysis |->
                               [ reasoning |-> llm_result.reasoning.val,
                                 confidence |-> llm_result.confidence.val,
                                 key_factors |-> llm_result.key_factors.val,
                                 recommended_action |-> llm_result.recommended_action.val,
                                 model_used |-> "gpt-4o-mini" ],
                           actions_done |-> << "score_lead:llm:score="
                                               \o ToString(llm_result.score.val) >> ]),
                      outcome)
        ELSE Ok(score_lead_rules(lead, enriched))

score_lead(st, outcome) ==
    LET lead == Get(st, "lead", EmptyDict)
        enriched == Get(st, "enriched", EmptyDict)
        use_llm == Get(st, "use_llm", FALSE)
        llm_result == score_lead_with_llm(lead, enriched, LeadChain(outcome))
    IN  IF ~Truthy(lead)
        THEN Ok([ score |-> 0,
                  llm_analysis |-> [ reasoning |-> "No lead data provided" ],
                  actions_done |-> << "score_lead:no_lead" >> ])
        ELSE IF use_llm /\ ~score_lead_llm_raises(llm_result)
        THEN WithCall(Ok([ score |-> llm_result.score.val,
                           llm_analysis |->
                               [ reasoning |-> llm_result.reasoning.val,
                                 confidence |-> llm_result.confidence.val,
                                 key_factors |-> llm_result.key_factors.val,
                                 recommended_action |-> llm_result.recommended_action.val,
                                 model_used |-> "gpt-4o-mini" ],
                           actions_done |-> << "score_lead:llm:score="
                                               \o ToString(llm_result.score.val) >> ]),
                      outcome)
        ELSE IF use_llm
        THEN WithCall(Ok(score_lead_rules(lead, enriched)), outcome)
        ELSE Ok(score_lead_rules(lead, enriched))

(* a decide_routing that would route on the analysis' confidence *)
decide_routing_by_confidence(st) ==
    LET llm_analysis == Get(st, "llm_analysis", EmptyDict)
        routing == determine_routing(Get(llm_analysis, "confidence", 0))
    IN  Ok([ route |-> [ owner_id |-> RoutingConfig.sdr_owner_id,
                         owner_type |-> routing.owner_type,
                         priority |-> routing.priority, reason |-> routing.reason ],
             actions_done |-> << "decide_routing:" \o routing.owner_type \o ":"
                                 \o routing.priority >> ])

(* a decide_routing that would let a confident smart-call analysis raise the
   route to AE / P1 *)
decide_routing_llm_priority(st) ==
    LET score == Get(st, "score", 0)
        llm_analysis == Get(st, "llm_analysis", EmptyDict)
        routing == determine_routing(score)
        hinted == Get(llm_analysis, "model_used", "None") = "gpt-4o-mini"
                  /\ Get(llm_analysis, "confidence", 0) >= 8000
        owner_type == IF hinted THEN "AE" ELSE routing.owner_type
        priority == IF hinted THEN "P1" ELSE routing.priority
        owner_id == IF owner_type = "AE" THEN RoutingConfig.ae_owner_id
                    ELSE IF owner_type = "SDR" THEN RoutingConfig.sdr_owner_id
                    ELSE RoutingConfig.nurture_owner_id
    IN  Ok([ route |-> [ owner_id |-> owner_id, owner_type |-> owner_type,
                         priority |-> priority, reason |-> routing.reason ],
             actions_done |-> << "decide_routing:" \o owner_type \o ":" \o priority >> ])

decide_routing(st) ==
    LET score == Get(st, "score", 0)
        llm_analysis == Get(st, "llm_analysis", EmptyDict)
        routing == determine_routing(score)
        owner_type == routing.owner_type
        owner_id == IF owner_type = "AE" THEN RoutingConfig.ae_owner_id
                    ELSE IF owner_type = "SDR" THEN RoutingConfig.sdr_owner_id
                    ELSE RoutingConfig.nurture_owner_id
        with_ai == routing.reason \o " AI Analysis: " \o llm_analysis.reasoning
        reason ==
            IF Get(llm_analysis, "reasoning", "") # ""
               /\ Get(llm_analysis, "model_used", "None") # "rule-based"
            THEN IF Get(llm_analysis, "recommended_action", "") # ""
                 THEN with_ai \o " Recommended: " \o llm_analysis.recommended_action
                 ELSE with_ai
            ELSE routing.reason
    IN  Ok([ route |-> [ owner_id |-> owner_id, owner_type |-> owner_type,
                         priority |-> routing.priority, reason |-> reason ],
             actions_done |-> << "decide_routing:" \o owner_type \o ":" \o routing.priority >> ])

(* execute_actions of the lead graph.  fail_at names the collaborator call
   that raises (if it is made); email_ok is the answer of the notifier, which
   reports a failure in its result and never raises. *)
(* email.send_high_value_lead_alert builds the message before send_email's
   try: the ',' format of lead.get('NumberOfEmployees', 'N/A') raises
   ValueError when the lead carries no NumberOfEmployees *)
send_high_value_lead_alert_raises(lead) ==
    /\ ResendConfig.notification_email # ""
    /\ "NumberOfEmployees" \notin DOMAIN lead

LeadActionResults ==
    [ fail_at : {"none", "assign_owner", "update_lead_status", "create_task", "create_note"},
      email_ok : BOOLEAN ]

(* an execute_actions without the early return for a missing lead: it goes
   on to the status update *)
lead_execute_actions_unguarded(st, env) ==
    LET lead == Get(st, "lead", EmptyDict)
        route == Get(st, "route", EmptyDict)
        owner_type == Get(route, "owner_type", "")
        new_status == IF owner_type = "AE" THEN "Working - Contacted"
                      ELSE IF owner_type = "SDR" THEN "Open - Not Contacted"
                      ELSE "Nurturing"
    IN  IF env.fail_at = "update_lead_status" THEN Raise
        ELSE Ok([ actions_done |-> << "sf:update_status:" \o new_status >> ])

lead_execute_actions(st, env) ==
    LET lead == Get(st, "lead", EmptyDict)
        route == Get(st, "route", EmptyDict)
        enriched == Get(st, "enriched", EmptyDict)
        score == Get(st, "score", 0)
        lead_id == lead.Id
        owner_id == Get(route, "owner_id", "")
        owner_type == Get(route, "owner_type", "")
        new_status == IF owner_type = "AE" THEN "Working - Contacted"
                      ELSE IF owner_type = "SDR" THEN "Open - Not Contacted"
                      ELSE "Nurturing"
        bp_id == Get(enriched, "business_partner_id", "")
        a1 == IF owner_id # "" THEN << "sf:assign_owner:" \o owner_id >> ELSE <<>>
        a2 == << "sf:update_status:" \o new_status >>
        a3 == << "sf:create_task:00T" \o lead_id >>
        a4 == IF bp_id # "" THEN << "sap:create_note:" \o bp_id >> ELSE <<>>
        a5 == IF score >= 6000
              THEN IF env.email_ok
                   THEN << "email:lead_alert:" \o ResendConfig.notification_email >>
                   ELSE << "email:lead_alert:failed" >>
              ELSE <<>>
    IN  IF ~Truthy(lead) \/ Get(lead, "Id", "") = ""
        THEN Ok([ actions_done |-> << "execute_actions:no_lead" >> ])
        ELSE IF \/ env.fail_at = "assign_owner" /\ owner_id # ""
                \/ env.fail_at \in {"update_lead_status", "create_task"}
                \/ env.fail_at = "create_note" /\ bp_id # ""
                \/ score >= 6000 /\ send_high_value_lead_alert_raises(lead)
        THEN Raise
        ELSE Ok([ actions_done |-> a1 \o a2 \o a3 \o a4 \o a5 ])

create_initial_lead_state(lead, use_llm) ==
    [ lead |-> lead,
      enriched |-> EmptyDict,
      score |-> 0,
      route |-> [ owner_id |-> "", owner_type |-> "", priority |-> "", reason |-> "" ],
      llm_analysis |-> [ reasoning |-> "", confidence |-> 0, key_factors |-> <<>>,
                         recommended_action |-> "", model_used |-> "" ],
      use_llm |-> use_llm,
      actions_done |-> <<>> ]

----------------------------------------------------------------------------
(* Salesforce cases of the model.  Subject and Description are texts (word
   sequences); nulls lists the fields Salesforce sent as JSON null, for which
   case.get(field, "") is Python None. *)

IsNone(case, field) == field \in Get(case, "nulls", {})

(* case.get(field, "") is falsy *)
NoText(case, field) == IsNone(case, field) \/ Get(case, field, <<>>) = <<>>

(* how an f-string renders case.get(field, "") *)
Rendered(case, field) == IF IsNone(case, field) THEN <<"None">> ELSE Get(case, field, <<>>)

CaseHowto ==
    [ Id |-> "5001", Subject |-> <<"password">>, Description |-> <<"help">>,
      AccountId |-> "", nulls |-> {} ]

CaseBilling ==
    [ Id |-> "5002", Subject |-> <<"invoice">>, Description |-> <<"refund">>,
      AccountId |-> "001A", nulls |-> {} ]

CaseOutage ==
    [ Id |-> "5003", Subject |-> <<"system", "DOWN">>, Description |-> <<"URGENT">>,
      AccountId |-> "001A", nulls |-> {} ]

CaseSecurity ==
    [ Id |-> "5004", Subject |-> <<"unauthorized", "access">>, Description |-> <<>>,
      AccountId |-> "", nulls |-> {} ]

CaseOther ==
    [ Id |-> "5005", Subject |-> <<"hello">>, Description |-> <<>>,
      AccountId |-> "", nulls |-> {} ]

CaseOrderRef ==
    [ Id |-> "5006", Subject |-> <<"help">>, Description |-> <<"order", "SO123">>,
      AccountId |-> "", nulls |-> {} ]

CaseNullDescription ==
    [ Id |-> "5007", Subject |-> <<"invoice">>, Description |-> <<>>,
      AccountId |-> "", nulls |-> {"Description"} ]

CaseNullSubject ==
    [ Id |-> "5008", Subject |-> <<>>, Description |-> <<"password">>,
      AccountId |-> "", nulls |-> {"Subject"} ]

CaseIdOnly == [ Id |-> "5009" ]

InputCases ==
    {EmptyDict, CaseHowto, CaseBilling, CaseOutage, CaseSecurity, CaseOther,
     CaseOrderRef, CaseNullDescription, CaseNullSubject, CaseIdOnly}

(* salesforce.get_new_cases(limit=1): raises, returns [] or one record *)
SfCaseResults ==
    { [ fail |-> TRUE, records |-> <<>> ],
      [ fail |-> FALSE, records |-> <<>> ],
      [ fail |-> FALSE, records |-> <<CaseBilling>> ] }

(* sap.get_sales_orders / sap.get_service_orders for a ticket *)
SapTicketResults ==
    {"sales_fail", "service_fail", "no_orders", "open_sales", "closed_sales", "service_only"}

SapTicketSalesOrders(sap) ==
    CASE sap = "open_sales" ->
            << [ SalesOrder |-> "SO1", SoldToParty |-> "BP1001", TotalNetAmount |-> 70000,
                 OverallSDProcessStatus |-> "A" ] >>
      [] sap = "closed_sales" ->
            << [ SalesOrder |-> "SO2", SoldToParty |-> "BP1001", TotalNetAmount |-> 30000,
                 OverallSDProcessStatus |-> "C" ] >>
      [] OTHER -> <<>>

SapTicketServiceOrders(sap) ==
    CASE sap = "service_only" ->
            << [ ServiceOrder |-> "SV1", SoldToParty |-> "BP3003",
                 ServiceOrderStatus |-> "OPEN" ] >>
      [] sap = "closed_sales" ->
            << [ ServiceOrder |-> "SV2", SoldToParty |-> "BP1001",
                 ServiceOrderStatus |-> "CLOSED" ] >>
      [] OTHER -> <<>>

(* sap.extract_order_context *)
extract_order_context(sales_orders, service_orders) ==
    [ sales_orders |-> sales_orders,
      service_orders |-> service_orders,
      business_partner_id |->
          IF sales_orders # <<>> THEN sales_orders[1].SoldToParty
          ELSE IF service_orders # <<>> THEN service_orders[1].SoldToParty
          ELSE "",
      has_open_orders |->
          \/ \E i \in 1..Len(sales_orders) :
                sales_orders[i].OverallSDProcessStatus \in {"A", "B"}
          \/ \E i \in 1..Len(service_orders) :
                service_orders[i].ServiceOrderStatus \in {"OPEN", "IN_PROCESS"},
      total_order_value |-> SumNet(sales_orders) ]

----------------------------------------------------------------------------
(* tools/kb.py: knowledge base search and the action decision.  Python None
   is the string "None". *)

KB_ARTICLES ==
    << [ article_id |-> "KB0001", category |-> "howto", relevance_base |-> 90,
         keywords |-> {"password", "reset", "forgot", "login", "access", "locked"} ],
       [ article_id |-> "KB0002", category |-> "howto", relevance_base |-> 85,
         keywords |-> {"2fa", "two-factor", "mfa", "authentication", "security", "setup"} ],
       [ article_id |-> "KB0003", category |-> "billing", relevance_base |-> 88,
         keywords |-> {"invoice", "bill", "charge", "payment", "price", "cost", "fee"} ],
       [ article_id |-> "KB0004", category |-> "billing", relevance_base |-> 85,
         keywords |-> {"payment", "credit card", "bank", "wire", "ach", "method"} ],
       [ article_id |-> "KB0005", category |-> "outage", relevance_base |-> 90,
         keywords |-> {"status", "down", "outage", "incident", "monitoring", "uptime"} ],
       [ article_id |-> "KB0006", category |-> "outage", relevance_base |-> 87,
         keywords |-> {"incident", "response", "sla", "recovery", "emergency", "urgent"} ],
       [ article_id |-> "KB0007", category |-> "security", relevance_base |-> 92,
         keywords |-> {"security", "breach", "hack", "unauthorized", "suspicious",
                       "protect"} ],
       [ article_id |-> "KB0008", category |-> "security", relevance_base |-> 88,
         keywords |-> {"privacy", "gdpr", "compliance", "data", "personal", "deletion"} ],
       [ article_id |-> "KB0009", category |-> "howto", relevance_base |-> 80,
         keywords |-> {"start", "begin", "new", "onboarding", "tutorial", "guide"} ],
       [ article_id |-> "KB0010", category |-> "howto", relevance_base |-> 75,
         keywords |-> {"api", "integration", "developer", "documentation", "endpoint"} ] >>

(* kw in query_lower or any(kw in word ...): among the words of the model a
   keyword is a substring of the query only where it is one of its words. *)
KeywordMatches(article, query) ==
    Cardinality({ kw \in article.keywords :
                    \E i \in 1..Len(query) : Lower(query[i]) = kw })

(* round(relevance_base * (0.5 + 0.5 * match_ratio), 3), in units of 1/1000 *)
Relevance(article, query) ==
    LET n == Cardinality(article.keywords)
        m == KeywordMatches(article, query)
    IN  (2 * article.relevance_base * 10 * (n + m) + 2 * n) \div (4 * n)

RECURSIVE SortByRelevance(_)
SortByRelevance(articles) ==
    IF articles = <<>> THEN <<>>
    ELSE LET top == CHOOSE i \in 1..Len(articles) :
                        /\ \A j \in 1..Len(articles) :
                              articles[j].relevance_score <= articles[i].relevance_score
                        /\ \A j \in 1..(i - 1) :
                              articles[j].relevance_score < articles[i].relevance_score
             rest == [ j \in 1..(Len(articles) - 1) |->
                         IF j < top THEN articles[j] ELSE articles[j + 1] ]
         IN  << articles[top] >> \o SortByRelevance(rest)

RECURSIVE ScoredArticlesFrom(_, _, _)
ScoredArticlesFrom(i, query, category) ==
    IF i > Len(KB_ARTICLES) THEN <<>>
    ELSE LET article == KB_ARTICLES[i]
             rest == ScoredArticlesFrom(i + 1, query, category)
         IN  IF category \notin {"", "None"} /\ article.category # category THEN rest
             ELSE IF KeywordMatches(article, query) = 0 THEN rest
             ELSE << [ article_id |-> article.article_id,
                       relevance_score |-> Relevance(article, query),
                       keyword_matches |-> KeywordMatches(article, query) ] >> \o rest

search_knowledge_base(query, category, limit) ==
    LET sorted == SortByRelevance(ScoredArticlesFrom(1, query, category))
    IN  SubSeq(sorted, 1, IF Len(sorted) < limit THEN Len(sorted) ELSE limit)

(* RESPONSE_TEMPLATES: the text of a template is named category/action *)
RESPONSE_TEMPLATES ==
    [ howto    |-> [ auto_reply |-> "howto/auto_reply", info_request |-> "None" ],
      billing  |-> [ auto_reply |-> "None", info_request |-> "billing/info_request" ],
      outage   |-> [ auto_reply |-> "None", info_request |-> "None",
                     escalation |-> "outage/escalation" ],
      security |-> [ auto_reply |-> "None", info_request |-> "None",
                     escalation |-> "security/escalation" ],
      other    |-> [ auto_reply |-> "None", info_request |-> "other/info_request" ] ]

get_response_template(category, action) ==
    LET templates == IF category \in DOMAIN RESPONSE_TEMPLATES
                     THEN RESPONSE_TEMPLATES[category]
                     ELSE RESPONSE_TEMPLATES["other"]
    IN  Get(templates, action, "None")

RECURSIVE ArticleLines(_)
ArticleLines(articles) ==
    IF articles = <<>> THEN ""
    ELSE " " \o Head(articles).article_id \o ArticleLines(Tail(articles))

format_kb_articles_for_response(articles) ==
    IF articles = <<>> THEN "No specific articles found." ELSE ArticleLines(articles)

Upper(category) ==
    CASE category = "outage" -> "OUTAGE"
      [] category = "security" -> "SECURITY"
      [] category = "billing" -> "BILLING"
      [] category = "howto" -> "HOWTO"
      [] category = "other" -> "OTHER"
      [] category = "switches" -> "SWITCHES"
      [] category = "cables" -> "CABLES"
      [] category = "none" -> "NONE"
      [] OTHER -> category

(* variant of determine_ticket_action whose howto branch does not look at the
   suggestions *)
determine_ticket_action_ignoring_kb(category, kb_suggestions) ==
    LET decision == [ action |-> "", owner_id |-> "None", response_template |-> "None",
                      escalation_reason |-> "None", priority_change |-> "None" ]
    IN  IF category = "howto"
        THEN [ decision EXCEPT
                 !.action = "auto_reply",
                 !.response_template =
                     get_response_template("howto", "auto_reply") \o ":"
                     \o format_kb_articles_for_response(kb_suggestions) ]
        ELSE IF category = "billing"
        THEN [ decision EXCEPT
                 !.action = "request_info",
                 !.response_template = get_response_template("billing", "info_request") ]
        ELSE IF category \in {"outage", "security"}
        THEN [ decision EXCEPT
                 !.action = "escalate",
                 !.response_template = get_response_template(category, "escalation"),
                 !.escalation_reason = "Auto-escalated: " \o Upper(category)
                                       \o " category detected",
                 !.priority_change = IF category = "outage" THEN "High" ELSE "Critical" ]
        ELSE [ decision EXCEPT
                 !.action = "request_info",
                 !.response_template = get_response_template("other", "info_request") ]

(* variant of determine_ticket_action without the final default branch *)
determine_ticket_action_no_default(category, kb_suggestions) ==
    LET decision == [ action |-> "", owner_id |-> "None", response_template |-> "None",
                      escalation_reason |-> "None", priority_change |-> "None" ]
    IN  IF category = "howto" /\ kb_suggestions # <<>>
        THEN [ decision EXCEPT
                 !.action = "auto_reply",
                 !.response_template =
                     get_response_template("howto", "auto_reply") \o ":"
                     \o format_kb_articles_for_response(kb_suggestions) ]
        ELSE IF category = "billing"
        THEN [ decision EXCEPT
                 !.action = "request_info",
                 !.response_template = get_response_template("billing", "info_request") ]
        ELSE IF category \in {"outage", "security"}
        THEN [ decision EXCEPT
                 !.action = "escalate",
                 !.response_template = get_response_template(category, "escalation"),
                 !.escalation_reason = "Auto-escalated: " \o Upper(category)
                                       \o " category detected",
                 !.priority_change = IF category = "outage" THEN "High" ELSE "Critical" ]
        ELSE decision

determine_ticket_action(category, kb_suggestions) ==
    LET decision == [ action |-> "", owner_id |-> "None", response_template |-> "None",
                      escalation_reason |-> "None", priority_change |-> "None" ]
    IN  IF category = "howto" /\ kb_suggestions # <<>>
        THEN IF get_response_template("howto", "auto_reply") # "None"
             THEN [ decision EXCEPT
                      !.action = "auto_reply",
                      !.response_template =
                          get_response_template("howto", "auto_reply") \o ":"
                          \o format_kb_articles_for_response(kb_suggestions) ]
             ELSE decision
        ELSE IF category = "billing"
        THEN [ decision EXCEPT
                 !.action = "request_info",
                 !.response_template = get_response_template("billing", "info_request") ]
        ELSE IF category \in {"outage", "security"}
        THEN [ decision EXCEPT
                 !.action = "escalate",
                 !.response_template = get_response_template(category, "escalation"),
                 !.escalation_reason = "Auto-escalated: " \o Upper(category)
                                       \o " category detected",
                 !.priority_change = IF category = "outage" THEN "High" ELSE "Critical" ]
        ELSE [ decision EXCEPT
                 !.action = "request_info",
                 !.response_template = get_response_template("other", "info_request") ]

----------------------------------------------------------------------------
(* llm.py: categorize_ticket_with_llm.  subject[:50] is evaluated before the
   try; the chain call and the logging of the result are inside it. *)

JTruthy(v) ==
    CASE v.type = "null"   -> FALSE
      [] v.type = "bool"   -> v.val
      [] v.type = "number" -> v.val # 0
      [] v.type = "string" -> v.val # ""
      [] v.type = "list"   -> v.val # <<>>

TicketChainOutcomes ==
    {"raise", "nonmapping", "complete", "flags_escalation", "unlisted_category",
     "missing_confidence", "category_is_null", "confidence_is_text",
     "reasoning_is_null", "high_urgency", "outage_calm", "security_flagged"}

TicketChain(outcome) ==
    LET full(category, urgency, escalate) ==
            [ category |-> JStr(category), confidence |-> JNum(900),
              urgency |-> JStr(urgency), reasoning |-> JStr("Customer asks about a charge"),
              sentiment |-> JStr("negative"),
              suggested_response |-> JStr("We are looking into it"),
              requires_escalation |-> JBool(escalate), escalation_reason |-> JNull ]
        without_confidence ==
            [ k \in DOMAIN full("billing", "medium", FALSE) \ {"confidence"} |->
                full("billing", "medium", FALSE)[k] ]
    IN  CASE outcome = "raise"      -> [ kind |-> "raise", out |-> EmptyDict ]
          [] outcome = "nonmapping" -> [ kind |-> "nonmapping", out |-> EmptyDict ]
          [] outcome = "complete" ->
                [ kind |-> "mapping", out |-> full("billing", "medium", FALSE) ]
          [] outcome = "flags_escalation" ->
                [ kind |-> "mapping", out |-> full("howto", "critical", TRUE) ]
          [] outcome = "unlisted_category" ->
                [ kind |-> "mapping", out |-> full("SPAM", "low", FALSE) ]
          [] outcome = "missing_confidence" ->
                [ kind |-> "mapping", out |-> without_confidence ]
          [] outcome = "category_is_null" ->
                [ kind |-> "mapping",
                  out |-> [ full("other", "medium", FALSE) EXCEPT !.category = JNull ] ]
          [] outcome = "confidence_is_text" ->
                [ kind |-> "mapping",
                  out |-> [ full("billing", "medium", FALSE) EXCEPT
                              !.confidence = JStr("high") ] ]
          [] outcome = "reasoning_is_null" ->
                [ kind |-> "mapping",
                  out |-> [ full("other", "medium", TRUE) EXCEPT !.reasoning = JNull ] ]
          [] outcome = "high_urgency" ->
                [ kind |-> "mapping", out |-> full("other", "high", FALSE) ]
          [] outcome = "outage_calm" ->
                [ kind |-> "mapping", out |-> full("outage", "low", FALSE) ]
          [] outcome = "security_flagged" ->
                [ kind |-> "mapping", out |-> full("security", "critical", TRUE) ]

TicketCategoryFallback ==
    [ category |-> JStr("other"), confidence |-> JNum(0), urgency |-> JStr("medium"),
      reasoning |-> JStr("[FALLBACK] LLM categorization failed. Routing to general support."),
      sentiment |-> JStr("neutral"),
      suggested_response |-> JStr("Thank you for contacting support."),
      requires_escalation |-> JBool(FALSE), escalation_reason |-> JNull ]

categorize_ticket_with_llm(case, sap_context, chain) ==
    IF IsNone(case, "Subject") THEN [ raised |-> TRUE, out |-> EmptyDict ]
    ELSE IF chain.kind # "mapping" THEN [ raised |-> FALSE, out |-> TicketCategoryFallback ]
    ELSE IF /\ {"category", "urgency", "sentiment", "requires_escalation", "reasoning"}
                  \subseteq DOMAIN chain.out
            /\ chain.out.category.type = "string"
         THEN [ raised |-> FALSE, out |-> chain.out ]
         ELSE [ raised |-> FALSE, out |-> TicketCategoryFallback ]

----------------------------------------------------------------------------
(* graphs/ticket_graph.py: the nodes.  Confidences are in units of 1/1000. *)

FormatMilli2(confidence) == ToString((confidence + 5) \div 10)

fetch_ticket(st, sf) ==
    LET case == Get(st, "case", EmptyDict)
    IN  IF Truthy(case) /\ Get(case, "Id", "") # ""
        THEN Ok([ actions_done |-> << "fetch_ticket:existing:" \o case.Id >> ])
        ELSE IF sf.fail THEN Raise
        ELSE IF sf.records = <<>>
        THEN Ok([ case |-> EmptyDict, actions_done |-> << "fetch_ticket:none_found" >> ])
        ELSE Ok([ case |-> sf.records[1],
                  actions_done |-> << "fetch_ticket:fetched:" \o sf.records[1].Id >> ])

(* the rule-based tail of categorize_ticket (ticket_graph.py:138-162) *)
categorize_ticket_rules(case) ==
    LET res == categorize_ticket(Rendered(case, "Subject"), Rendered(case, "Description"))
        first_two == { p \in res.matched_patterns :
                         Cardinality({ q \in res.matched_patterns : q < p }) < 2 }
    IN  [ category |-> res.category,
          llm_analysis |->
              [ reasoning |-> JStr("Rule-based categorization. Matched patterns: "
                                   \o ToString(first_two)),
                confidence |-> res.confidence,
                urgency |-> JStr(IF res.requires_escalation THEN "high" ELSE "medium"),
                sentiment |-> JStr("neutral"),
                suggested_response |-> JStr(""),
                requires_escalation |-> JBool(res.requires_escalation),
                model_used |-> "rule-based" ],
          actions_done |-> << "categorize_ticket:rules:" \o res.category \o ":"
                              \o FormatMilli2(res.confidence) >> ]

(* the LLM branch of categorize_ticket (ticket_graph.py:108-132): TRUE when
   one of its statements raises *)
categorize_ticket_llm_raises(llm) ==
    \/ llm.raised
    \/ ~({"category", "reasoning", "confidence", "urgency", "sentiment",
          "suggested_response", "requires_escalation"} \subseteq DOMAIN llm.out)
    \/ ~CanFormatFloat(llm.out.confidence)

categorize_ticket_llm(llm_result) ==
    [ category |-> llm_result.category.val,
      llm_analysis |->
          [ reasoning |-> llm_result.reasoning,
            confidence |-> llm_result.confidence.val,
            urgency |-> llm_result.urgency,
            sentiment |-> llm_result.sentiment,
            suggested_response |-> llm_result.suggested_response,
            requires_escalation |-> llm_result.requires_escalation,
            model_used |-> "gpt-4o-mini" ],
      actions_done |-> << "categorize_ticket:llm:" \o llm_result.category.val \o ":"
                          \o FormatMilli2(llm_result.confidence.val) >> ]

(* variant of categorize_ticket_node that tests use_llm before the content *)
categorize_ticket_node_llm_first(st, outcome) ==
    LET case == Get(st, "case", EmptyDict)
        use_llm == Get(st, "use_llm", FALSE)
        llm == categorize_ticket_with_llm(case, Get(st, "sap_context", EmptyDict),
                                          TicketChain(outcome))
    IN  IF use_llm /\ ~categorize_ticket_llm_raises(llm)
        THEN WithCall(Ok(categorize_ticket_llm(llm.out)), outcome)
        ELSE IF NoText(case, "Subject") /\ NoText(case, "Description")
        THEN Ok([ category |-> "other",
                  llm_analysis |-> [ reasoning |-> JStr("No content provided") ],
                  actions_done |-> << "categorize_ticket:no_content" >> ])
        ELSE IF use_llm
        THEN WithCall(Ok(categorize_ticket_rules(case)), outcome)
        ELSE Ok(categorize_ticket_rules(case))

categorize_ticket_node(st, outcome) ==
    LET case == Get(st, "case", EmptyDict)
        use_llm == Get(st, "use_llm", FALSE)
        llm == categorize_ticket_with_llm(case, Get(st, "sap_context", EmptyDict),
                                          TicketChain(outcome))
    IN  IF NoText(case, "Subject") /\ NoText(case, "Description")
        THEN Ok([ category |-> "other",
                  llm_analysis |-> [ reasoning |-> JStr("No content provided") ],
                  actions_done |-> << "categorize_ticket:no_content" >> ])
        ELSE IF use_llm /\ ~categorize_ticket_llm_raises(llm)
        THEN WithCall(Ok(categorize_ticket_llm(llm.out)), outcome)
        ELSE IF use_llm
        THEN WithCall(Ok(categorize_ticket_rules(case)), outcome)
        ELSE Ok(categorize_ticket_rules(case))

(* re.findall(r'(?:order|so|sap)[#\s\-]*(\w+)', description.lower()): among the
   words of the model only the word "order" starts a match, and the word after
   it is the reference *)
OrderRefs(description) ==
    LET at == { i \in 1..(Len(description) - 1) : Lower(description[i]) = "order" }
    IN  IF at = {} THEN <<>>
        ELSE << Lower(description[(CHOOSE i \in at : \A j \in at : i <= j) + 1]) >>

retrieve_context(st, sap) ==
    LET case == Get(st, "case", EmptyDict)
        account_id == Get(case, "AccountId", "")
        order_refs == OrderRefs(Get(case, "Description", <<>>))
        sales_orders == IF account_id # "" THEN SapTicketSalesOrders(sap) ELSE <<>>
        service_orders == IF account_id # "" \/ order_refs # <<>>
                          THEN SapTicketServiceOrders(sap) ELSE <<>>
    IN  IF IsNone(case, "Description") THEN Raise
        ELSE IF account_id # "" /\ sap \in {"sales_fail", "service_fail"} THEN Raise
        ELSE IF account_id = "" /\ order_refs # <<>> /\ sap = "service_fail" THEN Raise
        ELSE Ok([ sap_context |-> extract_order_context(sales_orders, service_orders),
                  actions_done |-> << "retrieve_context:sales=" \o ToString(Len(sales_orders))
                                      \o ":service=" \o ToString(Len(service_orders)) >> ])

NotNone(s) == s \notin {"", "None"}

(* a decide_action in which the LLM analysis has the last word on escalation:
   an analysis that does not require escalation turns the action into
   request_info *)
decide_action_llm_decides(st) ==
    LET case == Get(st, "case", EmptyDict)
        category == Get(st, "category", "other")
        sap_context == Get(st, "sap_context", EmptyDict)
        llm_analysis == Get(st, "llm_analysis", EmptyDict)
        use_llm == Get(st, "use_llm", FALSE)
        query == Rendered(case, "Subject") \o Rendered(case, "Description")
        kb_suggestions == search_knowledge_base(query, category, 3)
        d0 == determine_ticket_action(category, kb_suggestions)
        override == use_llm /\ Get(llm_analysis, "model_used", "None") # "rule-based"
        suggested == Get(llm_analysis, "suggested_response", JNull)
        d1 == IF override /\ JTruthy(suggested)
              THEN [ d0 EXCEPT !.response_template = suggested.val ] ELSE d0
        escalates == /\ override
                     /\ JTruthy(Get(llm_analysis, "requires_escalation", JNull))
                     /\ d1.action # "escalate"
        reasoning == Get(llm_analysis, "reasoning", JStr(""))
        d2 == IF escalates
              THEN [ d1 EXCEPT !.action = "escalate",
                               !.escalation_reason =
                                   "LLM flagged for escalation: " \o reasoning.val ]
              ELSE IF override
                      /\ ~JTruthy(Get(llm_analysis, "requires_escalation", JNull))
              THEN [ d1 EXCEPT !.action = "request_info" ]
              ELSE d1
        urgency == Get(llm_analysis, "urgency", JStr("medium"))
        d3 == IF override /\ urgency = JStr("critical")
              THEN [ d2 EXCEPT !.priority_change = "Critical" ]
              ELSE IF override /\ urgency = JStr("high") /\ ~NotNone(d2.priority_change)
              THEN [ d2 EXCEPT !.priority_change = "High" ]
              ELSE d2
        decision ==
              IF category = "billing" /\ Get(sap_context, "has_open_orders", FALSE)
              THEN [ d3 EXCEPT !.escalation_reason =
                        d3.escalation_reason \o " Note: Customer has "
                        \o ToString(Len(Get(sap_context, "sales_orders", <<>>)))
                        \o " open orders in SAP." ]
              ELSE d3
    IN  IF escalates /\ ~CanSlice(reasoning) THEN Raise
        ELSE Ok([ kb_suggestions |-> kb_suggestions,
                  decision |-> decision,
                  actions_done |-> << "decide_action:" \o decision.action >> ])

decide_action(st) ==
    LET case == Get(st, "case", EmptyDict)
        category == Get(st, "category", "other")
        sap_context == Get(st, "sap_context", EmptyDict)
        llm_analysis == Get(st, "llm_analysis", EmptyDict)
        use_llm == Get(st, "use_llm", FALSE)
        query == Rendered(case, "Subject") \o Rendered(case, "Description")
        kb_suggestions == search_knowledge_base(query, category, 3)
        d0 == determine_ticket_action(category, kb_suggestions)
        override == use_llm /\ Get(llm_analysis, "model_used", "None") # "rule-based"
        suggested == Get(llm_analysis, "suggested_response", JNull)
        d1 == IF override /\ JTruthy(suggested)
              THEN [ d0 EXCEPT !.response_template = suggested.val ] ELSE d0
        escalates == /\ override
                     /\ JTruthy(Get(llm_analysis, "requires_escalation", JNull))
                     /\ d1.action # "escalate"
        reasoning == Get(llm_analysis, "reasoning", JStr(""))
        d2 == IF escalates
              THEN [ d1 EXCEPT !.action = "escalate",
                               !.escalation_reason =
                                   "LLM flagged for escalation: " \o reasoning.val ]
              ELSE d1
        urgency == Get(llm_analysis, "urgency", JStr("medium"))
        d3 == IF override /\ urgency = JStr("critical")
              THEN [ d2 EXCEPT !.priority_change = "Critical" ]
              ELSE IF override /\ urgency = JStr("high") /\ ~NotNone(d2.priority_change)
              THEN [ d2 EXCEPT !.priority_change = "High" ]
              ELSE d2
        decision ==
              IF category = "billing" /\ Get(sap_context, "has_open_orders", FALSE)
              THEN [ d3 EXCEPT !.escalation_reason =
                        d3.escalation_reason \o " Note: Customer has "
                        \o ToString(Len(Get(sap_context, "sales_orders", <<>>)))
                        \o " open orders in SAP." ]
              ELSE d3
    IN  IF escalates /\ ~CanSlice(reasoning) THEN Raise
        ELSE Ok([ kb_suggestions |-> kb_suggestions,
                  decision |-> decision,
                  actions_done |-> << "decide_action:" \o decision.action >> ])

(* execute_actions of the ticket graph.  comment is what post_case_comment
   does (it swallows an HTTPError, any other exception propagates); fail_at
   names the other collaborator call that raises (if it is made). *)
TicketActionResults ==
    [ comment : {"ok", "http_error", "raise"},
      fail_at : {"none", "update_case", "create_note"} ]

ticket_execute_actions(st, env) ==
    LET case == Get(st, "case", EmptyDict)
        category == Get(st, "category", "")
        decision == Get(st, "decision", EmptyDict)
        sap_context == Get(st, "sap_context", EmptyDict)
        case_id == case.Id
        action == Get(decision, "action", "")
        response_text == Get(decision, "response_template", "")
        escalation_owner_id == RoutingConfig.escalation_owner_id
        a1 == IF NotNone(response_text)
              THEN << "sf:post_comment:"
                      \o (IF env.comment = "ok" THEN "00a" \o case_id ELSE "unknown") >>
              ELSE <<>>
        a2 == IF action = "escalate" THEN << "sf:escalate:" \o escalation_owner_id >>
              ELSE <<>>
        fields == IF action \in {"auto_reply", "request_info"} THEN "['Status']"
                  ELSE IF action = "escalate"
                  THEN IF NotNone(Get(decision, "priority_change", "None"))
                       THEN "['Status', 'IsEscalated', 'OwnerId', 'Priority']"
                       ELSE "['Status', 'IsEscalated', 'OwnerId']"
                  ELSE ""
        a3 == IF fields # "" THEN << "sf:update_case:" \o fields >> ELSE <<>>
        bp_id == Get(sap_context, "business_partner_id", "")
        notes == bp_id # "" /\ category \in {"billing", "outage"}
        a4 == IF notes THEN << "sap:create_note:" \o bp_id >> ELSE <<>>
    IN  IF ~Truthy(case) \/ Get(case, "Id", "") = ""
        THEN Ok([ actions_done |-> << "execute_actions:no_case" >> ])
        ELSE IF \/ env.comment = "raise" /\ NotNone(response_text)
                \/ env.fail_at = "update_case" /\ fields # ""
                \/ env.fail_at = "create_note" /\ notes
        THEN Raise
        ELSE Ok([ actions_done |-> a1 \o a2 \o a3 \o a4 ])

create_initial_ticket_state(case, use_llm) ==
    [ case |-> case,
      category |-> "",
      sap_context |-> [ sales_orders |-> <<>>, service_orders |-> <<>>,
                        business_partner_id |-> "", has_open_orders |-> FALSE,
                        total_order_value |-> 0 ],
      kb_suggestions |-> <<>>,
      decision |-> [ action |-> "", owner_id |-> "None", response_template |-> "None",
                     escalation_reason |-> "None", priority_change |-> "None" ],
      llm_analysis |-> [ reasoning |-> JStr(""), confidence |-> 0, urgency |-> JStr(""),
                         sentiment |-> JStr(""), suggested_response |-> JStr(""),
                         requires_escalation |-> JBool(FALSE), model_used |-> "" ],
      use_llm |-> use_llm,
      actions_done |-> <<>> ]

----------------------------------------------------------------------------
(* graphs/complaint_graph.py and llm.py: classify_product_complaint_with_llm *)

ComplaintProduct ==
    [ Id |-> "5101", Subject |-> <<"switch">>, Description |-> <<"broken">>, nulls |-> {} ]

ComplaintIT ==
    [ Id |-> "5102", Subject |-> <<"portal">>, Description |-> <<"login">>, nulls |-> {} ]

ComplaintBoth ==
    [ Id |-> "5103", Subject |-> <<"cable">>, Description |-> <<"password">>, nulls |-> {} ]

ComplaintGeneral ==
    [ Id |-> "5104", Subject |-> <<"hello">>, Description |-> <<>>, nulls |-> {} ]

ComplaintIdOnly == [ Id |-> "5105" ]

ComplaintNullSubject ==
    [ Id |-> "5106", Subject |-> <<>>, Description |-> <<"portal">>, nulls |-> {"Subject"} ]

InputComplaints ==
    {EmptyDict, ComplaintProduct, ComplaintIT, ComplaintBoth, ComplaintGeneral,
     ComplaintIdOnly, ComplaintNullSubject}

(* salesforce.get_case_by_id and salesforce.get_new_cases(limit=1) *)
SfComplaintResults ==
    [ by_id : {"raise", "not_found", "no_content", "found"},
      fail : BOOLEAN,
      records : { <<>>, <<ComplaintProduct>> } ]

RECURSIVE JoinWords(_)
JoinWords(text) ==
    IF text = <<>> THEN ""
    ELSE IF Len(text) = 1 THEN text[1]
    ELSE text[1] \o " " \o JoinWords(Tail(text))

(* how an f-string renders a JSON value *)
Render(v) ==
    CASE v.type = "null"   -> "None"
      [] v.type = "bool"   -> IF v.val THEN "True" ELSE "False"
      [] v.type = "number" -> ToString(v.val)
      [] v.type = "string" -> v.val
      [] v.type = "list"   -> ToString(v.val)

ComplaintChainOutcomes ==
    {"raise", "nonmapping", "product", "it_support", "both_flags", "neither",
     "only_flags", "confidence_is_text", "category_is_null"}

ComplaintChain(outcome) ==
    LET full(is_product, is_it, category) ==
            [ is_product_complaint |-> JBool(is_product), is_it_support |-> JBool(is_it),
              product_category |-> JStr(category), product_name |-> JStr(""),
              confidence |-> JNum(900), reasoning |-> JStr("Mentions a device"),
              sentiment |-> JStr("negative"), urgency |-> JStr("high"),
              complaint_summary |-> JStr("Device issue"),
              suggested_response |-> JStr("We will replace it") ]
    IN  CASE outcome = "raise"      -> [ kind |-> "raise", out |-> EmptyDict ]
          [] outcome = "nonmapping" -> [ kind |-> "nonmapping", out |-> EmptyDict ]
          [] outcome = "product" ->
                [ kind |-> "mapping", out |-> full(TRUE, FALSE, "switches") ]
          [] outcome = "it_support" ->
                [ kind |-> "mapping", out |-> full(FALSE, TRUE, "none") ]
          [] outcome = "both_flags" ->
                [ kind |-> "mapping", out |-> full(TRUE, TRUE, "cables") ]
          [] outcome = "neither" ->
                [ kind |-> "mapping", out |-> full(FALSE, FALSE, "none") ]
          [] outcome = "only_flags" ->
                [ kind |-> "mapping", out |-> [ is_it_support |-> JBool(TRUE) ] ]
          [] outcome = "confidence_is_text" ->
                [ kind |-> "mapping",
                  out |-> [ full(TRUE, FALSE, "switches") EXCEPT
                              !.confidence = JStr("high") ] ]
          [] outcome = "category_is_null" ->
                [ kind |-> "mapping",
                  out |-> [ full(TRUE, FALSE, "none") EXCEPT !.product_category = JNull ] ]

ComplaintFallback(subject) ==
    [ is_product_complaint |-> JBool(FALSE), is_it_support |-> JBool(FALSE),
      product_category |-> JStr("none"), product_name |-> JStr(""),
      confidence |-> JNum(0), reasoning |-> JStr("[FALLBACK] Classification failed"),
      sentiment |-> JStr("neutral"), urgency |-> JStr("medium"),
      complaint_summary |-> JStr(subject),
      suggested_response |-> JStr("Thank you for contacting us.") ]

classify_product_complaint_with_llm(case, chain) ==
    LET subject == IF "Subject" \in DOMAIN case THEN JoinWords(case.Subject)
                   ELSE "No subject"
        r == chain.out
        filled ==
            [ is_product_complaint |-> Get(r, "is_product_complaint", JBool(FALSE)),
              is_it_support |-> Get(r, "is_it_support", JBool(FALSE)),
              product_category |-> Get(r, "product_category", JStr("none")),
              product_name |-> Get(r, "product_name", JStr("")),
              confidence |-> Get(r, "confidence", JNum(700)),
              reasoning |-> Get(r, "reasoning", JStr("Classification completed")),
              sentiment |-> Get(r, "sentiment", JStr("neutral")),
              urgency |-> Get(r, "urgency", JStr("medium")),
              complaint_summary |-> Get(r, "complaint_summary", JStr(subject)),
              suggested_response |->
                  Get(r, "suggested_response", JStr("Thank you for contacting us.")) ]
    IN  IF IsNone(case, "Subject") THEN [ raised |-> TRUE, out |-> EmptyDict ]
        ELSE IF chain.kind # "mapping"
        THEN [ raised |-> FALSE, out |-> ComplaintFallback(subject) ]
        ELSE IF CanFormatFloat(filled.confidence) /\ CanSlice(filled.reasoning)
        THEN [ raised |-> FALSE, out |-> filled ]
        ELSE [ raised |-> FALSE, out |-> ComplaintFallback(subject) ]

InitialClassification ==
    [ is_product_complaint |-> JBool(FALSE), is_it_support |-> JBool(FALSE),
      product_category |-> JStr("none"), product_name |-> JStr(""), confidence |-> 0,
      reasoning |-> JStr(""), sentiment |-> JStr("neutral"), urgency |-> JStr("medium"),
      complaint_summary |-> JStr(""), suggested_response |-> JStr("") ]

create_initial_complaint_state(case, use_llm) ==
    [ case |-> case,
      classification |-> InitialClassification,
      decision |-> [ action |-> "", recipient_email |-> "", email_sent |-> FALSE,
                     redirect_url |-> "", message |-> "" ],
      use_llm |-> use_llm,
      actions_done |-> <<>> ]

complaint_fetch_ticket(st, sf) ==
    LET case == Get(st, "case", EmptyDict)
        case_id == case.Id
        has_content == ~NoText(case, "Subject") \/ ~NoText(case, "Description")
        full_case == [ ComplaintIT EXCEPT !.Id = case_id ]
    IN  IF Truthy(case) /\ Get(case, "Id", "") # ""
        THEN IF has_content
             THEN Ok([ actions_done |-> << "fetch_ticket:existing:" \o case_id >> ])
             ELSE IF sf.by_id = "raise" THEN Raise
             ELSE IF sf.by_id = "found"
             THEN Ok([ case |-> full_case,
                       actions_done |-> << "fetch_ticket:fetched_by_id:" \o case_id >> ])
             ELSE Ok([ case |-> [ Id |-> case_id,
                                  error |-> "Case " \o case_id
                                            \o " not found or has no content" ],
                       actions_done |->
                           << "fetch_ticket:error:case_not_found:" \o case_id >> ])
        ELSE IF sf.fail THEN Raise
        ELSE IF sf.records = <<>>
        THEN Ok([ case |-> EmptyDict, actions_done |-> << "fetch_ticket:none_found" >> ])
        ELSE Ok([ case |-> sf.records[1],
                  actions_done |-> << "fetch_ticket:fetched:" \o sf.records[1].Id >> ])

ProductKeywords ==
    << [ category |-> "switches",
         keywords |-> {"switch", "hirschmann", "ethernet switch", "industrial switch"} ],
       [ category |-> "cables",
         keywords |-> {"cable", "wire", "fiber", "cabling", "conductor"} ],
       [ category |-> "connectors",
         keywords |-> {"connector", "terminal", "plug", "socket", "patch"} ],
       [ category |-> "software",
         keywords |-> {"software", "firmware", "app", "application", "update"} ],
       [ category |-> "infrastructure",
         keywords |-> {"rack", "cabinet", "enclosure", "infrastructure"} ] >>

ItKeywords ==
    {"password", "login", "portal", "access", "account", "vpn", "email", "computer"}

(* any(kw in content for kw in keywords): among the words of the model a
   keyword is a substring of the content only where it is one of its words *)
AnyKeywordIn(keywords, content) ==
    \E kw \in keywords : \E i \in 1..Len(content) : Lower(content[i]) = kw

(* the rule-based tail of classify_complaint (complaint_graph.py:250-294) *)
classify_complaint_rules(case) ==
    LET content == Rendered(case, "Subject") \o Rendered(case, "Description")
        hits == { i \in 1..Len(ProductKeywords) :
                    AnyKeywordIn(ProductKeywords[i].keywords, content) }
        is_product == hits # {}
        product_category ==
            IF is_product
            THEN ProductKeywords[CHOOSE i \in hits : \A j \in hits : i <= j].category
            ELSE "none"
        is_it == AnyKeywordIn(ItKeywords, content) /\ ~is_product
    IN  [ classification |->
              [ is_product_complaint |-> JBool(is_product),
                is_it_support |-> JBool(is_it),
                product_category |-> JStr(product_category),
                product_name |-> JStr(""),
                confidence |-> 600,
                reasoning |-> JStr("Rule-based classification based on keyword matching"),
                sentiment |-> JStr("neutral"),
                urgency |-> JStr("medium"),
                complaint_summary |->
                    IF IsNone(case, "Subject") THEN JNull
                    ELSE JStr(JoinWords(Get(case, "Subject", <<>>))),
                suggested_response |-> JStr("") ],
          actions_done |-> << "classify_complaint:rules:" \o product_category >> ]

ComplaintNoContent ==
    [ classification |->
          [ is_product_complaint |-> JBool(FALSE), is_it_support |-> JBool(FALSE),
            product_category |-> JStr("none"), confidence |-> 0,
            reasoning |-> JStr("ERROR: No content to classify."),
            sentiment |-> JStr("unknown"), urgency |-> JStr("unknown"),
            complaint_summary |-> JStr("ERROR: No content provided"),
            suggested_response |-> JStr(""),
            error |-> TRUE,
            error_message |-> "Case has no Subject or Description to classify" ],
      actions_done |-> << "classify_complaint:error:no_content" >> ]

(* the LLM branch of classify_complaint (complaint_graph.py:212-244) *)
classify_complaint_llm_raises(llm) ==
    llm.raised \/ ~CanFormatFloat(llm.out.confidence)

classify_complaint_llm(llm_result) ==
    [ classification |-> [ llm_result EXCEPT !.confidence = llm_result.confidence.val ],
      actions_done |-> << "classify_complaint:llm:" \o Render(llm_result.product_category)
                          \o ":" \o FormatMilli2(llm_result.confidence.val) >> ]

classify_complaint(st, outcome) ==
    LET case == Get(st, "case", EmptyDict)
        use_llm == Get(st, "use_llm", TRUE)
        llm == classify_product_complaint_with_llm(case, ComplaintChain(outcome))
    IN  IF NoText(case, "Subject") /\ NoText(case, "Description")
        THEN Ok(ComplaintNoContent)
        ELSE IF use_llm /\ ~classify_complaint_llm_raises(llm)
        THEN WithCall(Ok(classify_complaint_llm(llm.out)), outcome)
        ELSE IF use_llm
        THEN WithCall(Ok(classify_complaint_rules(case)), outcome)
        ELSE Ok(classify_complaint_rules(case))

Or(a, b) == IF a # "" THEN a ELSE b

complaint_decide_action(st) ==
    LET classification == Get(st, "classification", EmptyDict)
        is_product == JTruthy(Get(classification, "is_product_complaint", JBool(FALSE)))
        is_it == JTruthy(Get(classification, "is_it_support", JBool(FALSE)))
        product_category == Get(classification, "product_category", JStr("none"))
        decision ==
            IF is_it
            THEN [ action |-> "email_services_agent",
                   recipient_email |-> Or(ResendConfig.services_agent_email,
                                          ResendConfig.notification_email),
                   email_sent |-> FALSE,
                   redirect_url |-> ResendConfig.it_support_url,
                   message |-> "IT Support issue detected." ]
            ELSE IF is_product
            THEN [ action |-> "email_product_expert",
                   recipient_email |-> Or(ResendConfig.product_expert_email,
                                          ResendConfig.notification_email),
                   email_sent |-> FALSE,
                   redirect_url |-> "",
                   message |-> "Product complaint (" \o Render(product_category)
                               \o ") detected." ]
            ELSE [ action |-> "email_product_expert",
                   recipient_email |-> Or(ResendConfig.product_expert_email,
                                          ResendConfig.notification_email),
                   email_sent |-> FALSE,
                   redirect_url |-> "",
                   message |-> "General inquiry (not IT support)." ]
    IN  Ok([ decision |-> decision,
             actions_done |-> << "decide_action:" \o decision.action >> ])

(* execute_actions of the complaint graph.  email_ok is the answer of the
   mail service; comment is what post_case_comment does. *)
ComplaintActionResults ==
    [ email_ok : BOOLEAN, comment : {"ok", "http_error", "raise"} ]

(* the send_*_email functions build the mail before send_email's try: they
   slice the subject and call .upper() on urgency and product_category *)
EmailRaises(case, classification, action, recipient_email) ==
    /\ recipient_email # ""
    /\ \/ IsNone(case, "Subject")
       \/ Get(classification, "urgency", JStr("medium")).type # "string"
       \/ /\ action = "email_product_expert"
          /\ Get(classification, "product_category", JStr("general")).type # "string"

complaint_execute_actions(st, env) ==
    LET case == Get(st, "case", EmptyDict)
        classification == Get(st, "classification", EmptyDict)
        decision == Get(st, "decision", EmptyDict)
        action == Get(decision, "action", "")
        recipient_email == Get(decision, "recipient_email", "")
        email_sent == recipient_email # "" /\ env.email_ok
        is_product == JTruthy(Get(classification, "is_product_complaint", JNull))
        is_it == JTruthy(Get(classification, "is_it_support", JNull))
        redirect_url == Get(decision, "redirect_url", "")
        a1 == IF email_sent THEN << "email:" \o action \o ":" \o recipient_email >>
              ELSE << "email:" \o action \o ":failed" >>
        a2 == IF ~is_product /\ is_it THEN << "redirect:it_portal:" \o redirect_url >>
              ELSE <<>>
    IN  IF ~Truthy(case) \/ Get(case, "Id", "") = ""
        THEN Ok([ actions_done |-> << "execute_actions:no_case" >> ])
        ELSE IF \/ EmailRaises(case, classification, action, recipient_email)
                \/ /\ is_product
                   /\ Get(classification, "product_category", JStr("N/A")).type # "string"
                \/ env.comment = "raise"
        THEN Raise
        ELSE Ok([ decision |-> [ decision EXCEPT !.email_sent = email_sent ],
                  actions_done |-> a1 \o a2 \o << "sf:post_comment" >> ])

----------------------------------------------------------------------------
(* Harness for the pure functions: Init draws the arguments, the action
   applies the function. *)

ScoreSlack == 500

MaxSubjectWords == 1

MaxDescriptionWords == 2

RunIdle ==
    /\ pipeline = "none"
    /\ pc = "idle"
    /\ state = EmptyDict
    /\ state2 = EmptyDict
    /\ executed = <<>>
    /\ updates = <<>>
    /\ smart_calls = 0
    /\ chain_outcome = "none"
    /\ ModuleIdle

RoutingScores == (0 - ScoreSlack)..(Unit + ScoreSlack)

ScorerLeads ==
    [ NumberOfEmployees : {0 - 5, 0, 10, 50, 100, 500, 1000},
      AnnualRevenue : {0, 100000, 500000, 1000000, 5000000, 10000000},
      Rating : {"Hot", "Warm", "Cold", ""},
      LeadSource : {"Customer Referral", "Partner", "Employee Referral", "Web", "Webinar",
                    "Trade Show", "Advertisement", "Cold Call", "Other", "Partner Referral"},
      Title : {"", "CTO", "Owner", "VP Sales", "Director", "Senior Consultant",
               "Manager", "Team Lead", "Engineer", "Analyst", "Intern"} ]

ScorerEnrichments ==
    {EmptyDict} \cup
    [ business_partner_id : {"", "BP1001"},
      credit_rating : {"A", "A+", "B"},
      account_status : {"Active", "Blocked"} ]

Words ==
    {"unauthorized", "access", "system", "DOWN", "cant", "invoice", "refund",
     "password", "hello", "URGENT"}

TextsUpTo(n) == UNION { [1..k -> Words] : k \in 0..n }

InitRoute ==
    /\ RunIdle
    /\ fn = "determine_routing"
    /\ args \in [ score : RoutingScores ]
    /\ result = EmptyDict

CallDetermineRouting ==
    /\ fn = "determine_routing"
    /\ result = EmptyDict
    /\ result' = determine_routing(args.score)
    /\ UNCHANGED <<fn, args, runVars, moduleVars>>

SpecRoute == InitRoute /\ [][CallDetermineRouting]_vars

InitScore ==
    /\ RunIdle
    /\ fn = "calculate_lead_score"
    /\ args \in [ lead : ScorerLeads, enriched : ScorerEnrichments ]
    /\ result = EmptyDict

CallCalculateLeadScore ==
    /\ fn = "calculate_lead_score"
    /\ result = EmptyDict
    /\ result' = calculate_lead_score(args.lead, args.enriched)
    /\ UNCHANGED <<fn, args, runVars, moduleVars>>

SpecScore == InitScore /\ [][CallCalculateLeadScore]_vars

InitClassify ==
    /\ RunIdle
    /\ fn = "categorize_ticket"
    /\ args \in [ subject : TextsUpTo(MaxSubjectWords),
                   description : TextsUpTo(MaxDescriptionWords) ]
    /\ result = EmptyDict

CallCategorizeTicket ==
    /\ fn = "categorize_ticket"
    /\ result = EmptyDict
    /\ result' = categorize_ticket(args.subject, args.description)
    /\ UNCHANGED <<fn, args, runVars, moduleVars>>

SpecClassify == InitClassify /\ [][CallCategorizeTicket]_vars

MaxSuggestions == 2

ActionCategories ==
    {"howto", "billing", "outage", "security", "other", "SPAM", "", "HOWTO"}

SuggestedArticles ==
    LET query == <<"password", "setup", "invoice", "guide">>
    IN  { [ article_id |-> KB_ARTICLES[i].article_id,
            relevance_score |-> Relevance(KB_ARTICLES[i], query),
            keyword_matches |-> KeywordMatches(KB_ARTICLES[i], query) ] :
          i \in {1, 2, 3, 9} }

SuggestionLists == UNION { [1..k -> SuggestedArticles] : k \in 0..MaxSuggestions }

InitAction ==
    /\ RunIdle
    /\ fn = "determine_ticket_action"
    /\ args \in [ category : ActionCategories, kb_suggestions : SuggestionLists ]
    /\ result = EmptyDict

CallDetermineTicketAction ==
    /\ fn = "determine_ticket_action"
    /\ result = EmptyDict
    /\ result' = determine_ticket_action(args.category, args.kb_suggestions)
    /\ UNCHANGED <<fn, args, runVars, moduleVars>>

SpecAction == InitAction /\ [][CallDetermineTicketAction]_vars

Called == DOMAIN result # {}

----------------------------------------------------------------------------
(* C6: determine_routing maps every score to exactly one band, lower bounds
   closed: score >= 0.75 gives AE/P1, 0.45 <= score < 0.75 gives SDR/P2,
   score < 0.45 gives Nurture/P3; so 0.7499 -> SDR/P2, 0.75 -> AE/P1,
   0.4499 -> Nurture/P3, 0.45 -> SDR/P2. *)
C6_RoutingBands ==
    (fn = "determine_routing" /\ Called) =>
        LET s == args.score
            band == <<result.owner_type, result.priority>>
        IN  /\ (s >= 7500) => band = <<"AE", "P1">>
            /\ (s >= 4500 /\ s < 7500) => band = <<"SDR", "P2">>
            /\ (s < 4500) => band = <<"Nurture", "P3">>
            /\ (s = 7499) => band = <<"SDR", "P2">>
            /\ (s = 7500) => band = <<"AE", "P1">>
            /\ (s = 4499) => band = <<"Nurture", "P3">>
            /\ (s = 4500) => band = <<"SDR", "P2">>

C6_Witness ==
    /\ fn = "determine_routing" /\ Called
    /\ args.score = 7500
    /\ result.owner_type = "AE"

(* C8: for every lead record and enrichment context the rule-based total
   score lies in [0, 1]; when base score plus enrichment bonus exceeds 1 the
   total is capped at exactly 1. *)
C8_ScoreInUnitInterval ==
    (fn = "calculate_lead_score" /\ Called) =>
        /\ result.total_score >= 0
        /\ result.total_score <= Unit
        /\ (result.base_score + result.sap_bonus > Unit) => result.total_score = Unit
        /\ (result.base_score + result.sap_bonus <= Unit) =>
               result.total_score = result.base_score + result.sap_bonus

C8_Witness ==
    /\ fn = "calculate_lead_score" /\ Called
    /\ result.base_score + result.sap_bonus > Unit
    /\ result.total_score = Unit

(* C10: per category raw_score = (matched patterns / total patterns) *
   category weight (security 1.0, outage 0.95, billing 0.85, howto 0.70); the
   category with the highest raw_score is returned, a tie going to the
   category declared earlier; with no match at all the result is category
   other with confidence 0.5. *)
C10_RawScore(i) ==
    LET weight == <<1000, 950, 850, 700>>
        text == args.subject \o args.description
        config == CATEGORY_PATTERNS[i]
        matched == { p \in 1..Len(config.patterns) : re_search(config.patterns[p], text) }
    IN  (Cardinality(matched) * weight[i]) \div Len(config.patterns)

C10_HighestRawScoreWins ==
    (fn = "categorize_ticket" /\ Called) =>
        LET order == <<"security", "outage", "billing", "howto">>
            hit == { i \in 1..4 : C10_RawScore(i) > 0 }
        IN  IF hit = {}
            THEN result.category = "other" /\ result.confidence = 500
            ELSE \E w \in hit :
                    /\ result.category = order[w]
                    /\ result.confidence = C10_RawScore(w)
                    /\ \A i \in hit : C10_RawScore(i) <= C10_RawScore(w)
                    /\ \A i \in hit : C10_RawScore(i) = C10_RawScore(w) => w <= i

C10_Witness ==
    /\ fn = "categorize_ticket" /\ Called
    /\ Cardinality(DOMAIN result.all_scores) >= 2
    /\ result.category = "outage"
    /\ 1 \in DOMAIN result.all_scores

C10_WitnessOther ==
    /\ fn = "categorize_ticket" /\ Called
    /\ args.description # <<>>
    /\ result.category = "other"
    /\ result.confidence = 500


----------------------------------------------------------------------------
(* The compiled graphs: a run walks the declared node order; a node that
   raises aborts the run (graph.invoke propagates the exception). *)

NodeOrder(p) ==
    CASE p = "lead" ->
            <<"FetchLead", "EnrichLead", "ScoreLead", "DecideRouting", "ExecuteActions">>
      [] p = "lead_pair" ->
            <<"FetchLead", "EnrichLead", "ScoreLead", "DecideRouting", "ExecuteActions">>
      [] p = "ticket" ->
            <<"FetchTicket", "CategorizeTicket", "RetrieveContext", "DecideAction",
              "ExecuteActions">>
      [] p = "complaint" ->
            <<"FetchTicket", "ClassifyComplaint", "DecideAction", "ExecuteActions">>
      [] OTHER -> <<>>

(* a graph whose edges would jump over the following node *)
NextNodeSkipping(p, node) ==
    LET order == NodeOrder(p)
        i == CHOOSE j \in 1..Len(order) : order[j] = node
    IN  IF i + 2 > Len(order) THEN "END" ELSE order[i + 2]

NextNode(p, node) ==
    LET order == NodeOrder(p)
        i == CHOOSE j \in 1..Len(order) : order[j] = node
    IN  IF i = Len(order) THEN "END" ELSE order[i + 1]

HarnessIdle ==
    /\ fn = "none"
    /\ args = EmptyDict
    /\ result = EmptyDict

RunNode(node, res) ==
    /\ pc = node
    /\ IF res.raised
       THEN /\ pc' = "FAILED"
            /\ UNCHANGED <<state, executed, updates>>
       ELSE /\ pc' = NextNode(pipeline, node)
            /\ state' = Merge(state, res.update)
            /\ executed' = Append(executed, node)
            /\ updates' = Append(updates, res.update)
    /\ smart_calls' = smart_calls + res.calls
    /\ chain_outcome' = IF res.calls > 0 THEN res.chain ELSE chain_outcome
    /\ UNCHANGED <<pipeline, state2, harnessVars, moduleVars>>

InitLead ==
    /\ pipeline = "lead"
    /\ pc = "FetchLead"
    /\ \E lead \in InputLeads, use_llm \in BOOLEAN :
          state = create_initial_lead_state(lead, use_llm)

FetchLead ==
    /\ pipeline = "lead"
    /\ \E sf \in SfLeadResults : RunNode("FetchLead", fetch_lead(state, sf))

EnrichLead ==
    /\ pipeline = "lead"
    /\ \E sap \in SapLeadResults : RunNode("EnrichLead", enrich_lead(state, sap))

ScoreLead ==
    /\ pipeline = "lead"
    /\ \E outcome \in LeadChainOutcomes : RunNode("ScoreLead", score_lead(state, outcome))

DecideRouting ==
    /\ pipeline = "lead"
    /\ RunNode("DecideRouting", decide_routing(state))

LeadExecuteActions ==
    /\ pipeline = "lead"
    /\ \E env \in LeadActionResults :
          RunNode("ExecuteActions", lead_execute_actions(state, env))

InitTicket ==
    /\ pipeline = "ticket"
    /\ pc = "FetchTicket"
    /\ \E case \in InputCases, use_llm \in BOOLEAN :
          state = create_initial_ticket_state(case, use_llm)

FetchTicket ==
    /\ pipeline = "ticket"
    /\ \E sf \in SfCaseResults : RunNode("FetchTicket", fetch_ticket(state, sf))

CategorizeTicket ==
    /\ pipeline = "ticket"
    /\ \E outcome \in TicketChainOutcomes :
          RunNode("CategorizeTicket", categorize_ticket_node(state, outcome))

RetrieveContext ==
    /\ pipeline = "ticket"
    /\ \E sap \in SapTicketResults : RunNode("RetrieveContext", retrieve_context(state, sap))

DecideAction ==
    /\ pipeline = "ticket"
    /\ RunNode("DecideAction", decide_action(state))

TicketExecuteActions ==
    /\ pipeline = "ticket"
    /\ \E env \in TicketActionResults :
          RunNode("ExecuteActions", ticket_execute_actions(state, env))

InitComplaint ==
    /\ pipeline = "complaint"
    /\ pc = "FetchTicket"
    /\ \E case \in InputComplaints, use_llm \in BOOLEAN :
          state = create_initial_complaint_state(case, use_llm)

ComplaintFetchTicket ==
    /\ pipeline = "complaint"
    /\ \E sf \in SfComplaintResults :
          RunNode("FetchTicket", complaint_fetch_ticket(state, sf))

ClassifyComplaint ==
    /\ pipeline = "complaint"
    /\ \E outcome \in ComplaintChainOutcomes :
          RunNode("ClassifyComplaint", classify_complaint(state, outcome))

ComplaintDecideAction ==
    /\ pipeline = "complaint"
    /\ RunNode("DecideAction", complaint_decide_action(state))

ComplaintExecuteActions ==
    /\ pipeline = "complaint"
    /\ \E env \in ComplaintActionResults :
          RunNode("ExecuteActions", complaint_execute_actions(state, env))

Init ==
    /\ (InitLead \/ InitTicket \/ InitComplaint)
    /\ state2 = EmptyDict
    /\ executed = <<>>
    /\ updates = <<>>
    /\ smart_calls = 0
    /\ chain_outcome = "none"
    /\ HarnessIdle
    /\ ModuleIdle

Next ==
    \/ FetchLead
    \/ EnrichLead
    \/ ScoreLead
    \/ DecideRouting
    \/ LeadExecuteActions
    \/ FetchTicket
    \/ CategorizeTicket
    \/ RetrieveContext
    \/ DecideAction
    \/ TicketExecuteActions
    \/ ComplaintFetchTicket
    \/ ClassifyComplaint
    \/ ComplaintDecideAction
    \/ ComplaintExecuteActions

Spec == Init /\ [][Next]_vars

Completed == pc = "END"

Aborted == pc = "FAILED"

Ran(node) == \E i \in 1..Len(executed) : executed[i] = node

UpdateOf(node) == updates[CHOOSE i \in 1..Len(executed) : executed[i] = node]


----------------------------------------------------------------------------
(* Two independent lead runs, advanced node by node side by side, to compare
   what DecideRouting writes for equal scores. *)

RunPair(node, res1, res2) ==
    /\ pc = node
    /\ IF res1.raised \/ res2.raised
       THEN /\ pc' = "FAILED"
            /\ UNCHANGED <<state, state2, executed>>
       ELSE /\ pc' = NextNode(pipeline, node)
            /\ state' = Merge(state, res1.update)
            /\ state2' = Merge(state2, res2.update)
            /\ executed' = Append(executed, node)
    /\ UNCHANGED <<pipeline, updates, smart_calls, chain_outcome, harnessVars, moduleVars>>

InitPair ==
    /\ pipeline = "lead_pair"
    /\ pc = "FetchLead"
    /\ \E lead1 \in InputLeads, lead2 \in InputLeads, llm1 \in BOOLEAN, llm2 \in BOOLEAN :
          /\ state = create_initial_lead_state(lead1, llm1)
          /\ state2 = create_initial_lead_state(lead2, llm2)
    /\ executed = <<>>
    /\ updates = <<>>
    /\ smart_calls = 0
    /\ chain_outcome = "none"
    /\ HarnessIdle
    /\ ModuleIdle

PairFetchLead ==
    /\ pipeline = "lead_pair"
    /\ \E sf1 \in SfLeadResults, sf2 \in SfLeadResults :
           RunPair("FetchLead", fetch_lead(state, sf1), fetch_lead(state2, sf2))

PairEnrichLead ==
    /\ pipeline = "lead_pair"
    /\ \E sap1 \in SapLeadResults, sap2 \in SapLeadResults :
           RunPair("EnrichLead", enrich_lead(state, sap1), enrich_lead(state2, sap2))

PairScoreLead ==
    /\ pipeline = "lead_pair"
    /\ \E o1 \in LeadChainOutcomes, o2 \in LeadChainOutcomes :
           RunPair("ScoreLead", score_lead(state, o1), score_lead(state2, o2))

PairDecideRouting ==
    /\ pipeline = "lead_pair"
    /\ RunPair("DecideRouting", decide_routing(state), decide_routing(state2))

PairExecuteActions ==
    /\ pipeline = "lead_pair"
    /\ \E env1 \in LeadActionResults, env2 \in LeadActionResults :
           RunPair("ExecuteActions", lead_execute_actions(state, env1),
                   lead_execute_actions(state2, env2))

NextPair ==
    \/ PairFetchLead
    \/ PairEnrichLead
    \/ PairScoreLead
    \/ PairDecideRouting
    \/ PairExecuteActions

SpecPair == InitPair /\ [][NextPair]_vars

----------------------------------------------------------------------------
(* Properties of the runs *)

Pipelines == {"lead", "ticket", "complaint"}

DecisionNodes == {"ScoreLead", "CategorizeTicket", "ClassifyComplaint"}

ActionsReturned == [ i \in 1..Len(updates) |-> updates[i].actions_done ]

(* C1: in every run that completes, of each of the three pipelines, the final
   actions_done is the concatenation, in execution order, of the actions_done
   lists the nodes returned. *)
C1_ActionsDoneIsConcatenation ==
    (pipeline \in Pipelines /\ Completed)
        => state.actions_done = Flatten(ActionsReturned)

C1_Witness ==
    /\ pipeline = "lead"
    /\ Completed
    /\ Len(updates) = 5
    /\ Len(updates[5].actions_done) = 5
    /\ Len(state.actions_done) = 9

(* C2 as stated: every run, also one that a raising node ended, has executed
   every declared node. *)
C2_EveryRunExecutesEveryStep ==
    (pipeline \in Pipelines /\ pc \in {"END", "FAILED"})
        => executed = NodeOrder(pipeline)

(* C2, amended: the nodes a run has executed are always a prefix of the
   declared order (none skipped, repeated or out of order), the node to run
   next is the one after that prefix, and a run that completes has executed
   every declared node exactly once. *)
C2_StepsInDeclaredOrder ==
    pipeline \in Pipelines =>
        /\ IsPrefix(executed, NodeOrder(pipeline))
        /\ Completed => executed = NodeOrder(pipeline)
        /\ pc \notin {"END", "FAILED"} => pc = NodeOrder(pipeline)[Len(executed) + 1]

C2_Witness ==
    /\ pipeline = "lead"
    /\ Completed
    /\ state.lead = EmptyDict
    /\ executed = NodeOrder("lead")

(* C3: the decision node of each pipeline never raises, whatever the chain
   does, and the update it returns holds a score, a category or a
   classification; a run is therefore never ended by its decision node. *)
C3_DecisionStepNeverRaises ==
    /\ (pipeline = "lead" /\ pc = "ScoreLead") =>
          \A o \in LeadChainOutcomes :
              /\ ~score_lead(state, o).raised
              /\ "score" \in DOMAIN score_lead(state, o).update
    /\ (pipeline = "ticket" /\ pc = "CategorizeTicket") =>
          \A o \in TicketChainOutcomes :
              /\ ~categorize_ticket_node(state, o).raised
              /\ "category" \in DOMAIN categorize_ticket_node(state, o).update
    /\ (pipeline = "complaint" /\ pc = "ClassifyComplaint") =>
          \A o \in ComplaintChainOutcomes :
              /\ ~classify_complaint(state, o).raised
              /\ "classification" \in DOMAIN classify_complaint(state, o).update
    /\ (pipeline \in Pipelines /\ Aborted) =>
          NodeOrder(pipeline)[Len(executed) + 1] \notin DecisionNodes

C3_Witness ==
    /\ pipeline = "lead"
    /\ Ran("ScoreLead")
    /\ chain_outcome = "reasoning_is_null"
    /\ UpdateOf("ScoreLead").llm_analysis.model_used = "rule-based"
    /\ UpdateOf("ScoreLead").score
          = calculate_lead_score(state.lead, state.enriched).total_score

(* C4 as stated: with use_llm true and a chain that raises, ScoreLead returns
   the score of the rule-based scorer for the same lead and enrichment, tagged
   model_used = fallback. *)
C4_RuleBasedScoreWhenChainRaises ==
    (pipeline = "lead" /\ Ran("ScoreLead") /\ state.use_llm /\ chain_outcome = "raise")
        => /\ UpdateOf("ScoreLead").score
                = calculate_lead_score(state.lead, state.enriched).total_score
           /\ Get(UpdateOf("ScoreLead").llm_analysis, "model_used", "None") = "fallback"

(* C5 as stated: with use_llm false the *_with_llm function is never invoked
   and the result the decision node stores is tagged model_used = rule-based. *)
C5_RuleBasedWhenLlmDisabled ==
    (pipeline \in Pipelines /\ ~state.use_llm)
        => /\ smart_calls = 0
           /\ (pipeline \in {"lead", "ticket"} /\ Len(executed) >= 3)
                 => Get(state.llm_analysis, "model_used", "None") = "rule-based"
           /\ (pipeline = "complaint" /\ Len(executed) >= 2)
                 => Get(state.classification, "model_used", "None") = "rule-based"

(* C7 as stated: two lead runs with the same score get the same route
   (owner_type, priority and reason). *)
C7_RouteDerivedSolelyFromScore ==
    (pipeline = "lead_pair" /\ Ran("DecideRouting") /\ state.score = state2.score)
        => /\ state.route.owner_type = state2.route.owner_type
           /\ state.route.priority = state2.route.priority
           /\ state.route.reason = state2.route.reason

(* C7, amended: two lead runs with the same score get the same owner_type,
   priority and owner_id, whatever their lead, enriched, llm_analysis and
   use_llm are; the reason is the same whenever the two runs also hold the
   same llm_analysis. *)
C7_OwnerAndPriorityFromScore ==
    (pipeline = "lead_pair" /\ Ran("DecideRouting") /\ state.score = state2.score)
        => /\ state.route.owner_type = state2.route.owner_type
           /\ state.route.priority = state2.route.priority
           /\ state.route.owner_id = state2.route.owner_id
           /\ state.llm_analysis = state2.llm_analysis
                 => state.route.reason = state2.route.reason

C7_Witness ==
    /\ pipeline = "lead_pair"
    /\ Ran("DecideRouting")
    /\ state.score = state2.score
    /\ state.lead # state2.lead
    /\ state.use_llm # state2.use_llm
    /\ state.route.owner_type = "Nurture"
    /\ state.route.reason # state2.route.reason

(* C9 as stated: the score ScoreLead writes, and so the score of the final
   state, lies in [0, 1] on every path and for every value the chain returns. *)
C9_StoredScoreInUnitInterval ==
    pipeline = "lead" => (state.score >= 0 /\ state.score <= Unit)

(* C11 as stated: when subject and description are both empty, classification
   returns category other with confidence 0.0 and no escalation; checked here
   for the deterministic classifier kb.categorize_ticket called with empty
   text (the ticket node's short-circuit stores no confidence at all). *)
C11_EmptyTextZeroConfidence ==
    (fn = "categorize_ticket" /\ Called
        /\ args.subject = <<>> /\ args.description = <<>>) =>
        /\ result.category = "other"
        /\ result.confidence = 0
        /\ ~result.requires_escalation

(* C12 as stated: in every ticket run the category stored in the state after
   CategorizeTicket is one of howto, billing, outage, security, other, on
   every path, a successful chain call returning another value included. *)
C12_StoredCategoryInSchema ==
    (pipeline = "ticket" /\ Ran("CategorizeTicket")) =>
        state.category \in {"howto", "billing", "outage", "security", "other"}

(* C13 as stated: determine_ticket_action maps howto to auto_reply, billing
   to request_info, outage to escalate with priority High, security to
   escalate with priority Critical and any other category to request_info,
   for every list of knowledge-base suggestions, the empty one included. *)
C13_CategoryDeterminesAction ==
    (fn = "determine_ticket_action" /\ Called) =>
        LET c == args.category
        IN  /\ c = "howto" => result.action = "auto_reply"
            /\ c = "billing" => result.action = "request_info"
            /\ c = "outage" => result.action = "escalate" /\ result.priority_change = "High"
            /\ c = "security" =>
                   result.action = "escalate" /\ result.priority_change = "Critical"
            /\ c \notin {"howto", "billing", "outage", "security"} =>
                   result.action = "request_info"

(* C13, amended: as above, except that howto gives auto_reply only when there
   is at least one knowledge-base suggestion; howto with no suggestion gives
   request_info with the general information-request template. *)
C13_ActionFromCategoryAndSuggestions ==
    (fn = "determine_ticket_action" /\ Called) =>
        LET c == args.category
        IN  /\ (c = "howto" /\ args.kb_suggestions # <<>>) => result.action = "auto_reply"
            /\ (c = "howto" /\ args.kb_suggestions = <<>>) =>
                   /\ result.action = "request_info"
                   /\ result.response_template = "other/info_request"
            /\ c = "billing" => result.action = "request_info"
            /\ c = "outage" => result.action = "escalate" /\ result.priority_change = "High"
            /\ c = "security" =>
                   result.action = "escalate" /\ result.priority_change = "Critical"
            /\ c \notin {"howto", "billing", "outage", "security"} =>
                   result.action = "request_info"
            /\ result.action # "escalate" => result.priority_change = "None"

C13_Witness ==
    /\ fn = "determine_ticket_action" /\ Called
    /\ args.category = "howto"
    /\ args.kb_suggestions = <<>>
    /\ result.action = "request_info"

(* C14: when the case has neither subject nor description, the classification
   step of the ticket and of the complaint pipeline returns the explicit
   no-content result without invoking the chain, whether use_llm is true or
   false: no chain call is made at the step for any behaviour of the chain,
   and none has been made in the run once the step has executed. *)
C14_NoContentSkipsSmartCall ==
    LET node == IF pipeline = "ticket" THEN "CategorizeTicket" ELSE "ClassifyComplaint"
        empty == /\ NoText(state.case, "Subject")
                 /\ NoText(state.case, "Description")
    IN  (pipeline \in {"ticket", "complaint"} /\ empty) =>
            /\ pc = "CategorizeTicket" =>
                   \A o \in TicketChainOutcomes :
                       /\ categorize_ticket_node(state, o).calls = 0
                       /\ ~categorize_ticket_node(state, o).raised
            /\ pc = "ClassifyComplaint" =>
                   \A o \in ComplaintChainOutcomes :
                       /\ classify_complaint(state, o).calls = 0
                       /\ ~classify_complaint(state, o).raised
            /\ Ran(node) =>
                   /\ smart_calls = 0
                   /\ chain_outcome = "none"
                   /\ UpdateOf(node).actions_done \in
                          { << "categorize_ticket:no_content" >>,
                            << "classify_complaint:error:no_content" >> }
                   /\ pipeline = "ticket" => state.category = "other"
                   /\ pipeline = "complaint" => state.classification = ComplaintNoContent.classification

C14_Witness ==
    /\ pipeline = "ticket"
    /\ state.use_llm
    /\ Get(state.case, "Id", "") = "5009"
    /\ Ran("CategorizeTicket")
    /\ smart_calls = 0
    /\ UpdateOf("CategorizeTicket").actions_done = << "categorize_ticket:no_content" >>

C14_WitnessComplaint ==
    /\ pipeline = "complaint"
    /\ state.use_llm
    /\ Ran("ClassifyComplaint")
    /\ smart_calls = 0
    /\ state.classification = ComplaintNoContent.classification

----------------------------------------------------------------------------
(* api/routes.py: what the invoker of POST /run/lead (lead pipeline) and of
   POST /run/ticket (complaint pipeline) receives once the run is over.  The
   run functions do not catch: an exception raised by a node leaves
   graph.invoke and reaches the handler's `except Exception`, which answers
   HTTP 500 with a detail string built from the exception text alone. *)
WorkflowResponse ==
    IF Aborted
    THEN [ status_code |-> 500, detail |-> "Workflow execution failed" ]
    ELSE [ status_code |-> 200, success |-> TRUE, state |-> state,
           actions_executed |-> Get(state, "actions_done", <<>>) ]

(* C15 as stated: when a collaborator call fails partway through a run, the
   failure reported to the invoker still carries the actions_done entries of
   everything that succeeded before the failure. *)
C15_FailureCarriesActionsDone ==
    (pipeline \in {"lead", "complaint"} /\ Aborted /\ state.actions_done # <<>>) =>
        /\ "actions_executed" \in DOMAIN WorkflowResponse
        /\ WorkflowResponse.actions_executed = state.actions_done

(* the entries execute_actions logs when the notifier answered with a failure
   (lead alert, complaint mails to a configured recipient) or when
   post_case_comment swallowed an HTTPError (ticket graph: no comment id) *)
CollaboratorFailureLogged ==
    \E i \in 1..Len(state.actions_done) :
        state.actions_done[i] \in
            { "email:lead_alert:failed",
              "sf:post_comment:unknown",
              "email:email_product_expert:failed",
              "email:email_services_agent:failed" }

(* C16 as stated: a failure of the record source, the enrichment source or
   the notifier during a run is not recovered inside the pipeline, so a run
   in which a case comment or an email send failed does not complete. *)
C16_CollaboratorFailureFailsRun ==
    (pipeline \in Pipelines /\ Completed) => ~CollaboratorFailureLogged

(* C17: every run that completes returns a full final state.  A lead run's
   state has the score written by ScoreLead and a route with owner_type in
   {AE, SDR, Nurture} and priority in {P1, P2, P3}; a ticket run's state has
   the category written by CategorizeTicket and a decision whose action is
   auto_reply, request_info or escalate (never empty); both have the action
   log, with one entry or more of every step. *)
C17_CompletedRunHasFullState ==
    Completed =>
        /\ pipeline = "lead" =>
              /\ "score" \in DOMAIN UpdateOf("ScoreLead")
              /\ state.score = UpdateOf("ScoreLead").score
              /\ state.route.owner_type \in {"AE", "SDR", "Nurture"}
              /\ state.route.priority \in {"P1", "P2", "P3"}
              /\ Len(state.actions_done) >= Len(NodeOrder("lead"))
        /\ pipeline = "ticket" =>
              /\ "category" \in DOMAIN UpdateOf("CategorizeTicket")
              /\ state.category = UpdateOf("CategorizeTicket").category
              /\ state.category # ""
              /\ state.decision.action \in {"auto_reply", "request_info", "escalate"}
              /\ Len(state.actions_done) >= Len(NodeOrder("ticket"))

C17_Witness ==
    /\ pipeline = "ticket"
    /\ Completed
    /\ state.case = EmptyDict
    /\ state.category = "other"
    /\ state.decision.action = "request_info"

C17_WitnessLead ==
    /\ pipeline = "lead"
    /\ Completed
    /\ state.lead = EmptyDict
    /\ state.route.owner_type = "Nurture"
    /\ state.route.priority = "P3"

----------------------------------------------------------------------------
(* Concurrent requests.  Two requests to POST /run/lead are served in
   separate call stacks of one process whose Salesforce credentials are real
   (not the demo placeholders).  A request either names a lead
   (kind "by_id": the handler calls salesforce.get_lead_by_id before the run)
   or not (kind "newest": FetchLead calls salesforce.get_new_leads).  The
   module globals _access_token and _instance_url are shared by the threads;
   every WorkflowState is local to its thread.  One action is one step of one
   thread; use_llm is false in these runs. *)

Threads == {1, 2}

(* MOCK_LEADS[0] *)
MockLead ==
    [ Id |-> "00Q5g00000MockLd1", Name |-> "John Smith", Company |-> "Acme Corporation",
      Title |-> "VP of Engineering", Industry |-> "Technology", LeadSource |-> "Web",
      Rating |-> "Hot", AnnualRevenue |-> 5000000, NumberOfEmployees |-> 250 ]

(* _is_mock_mode(): the configuration is not mock, so only the token decides *)
is_mock_mode == access_token = "mock_access_token"

(* authenticate() called by thread i: the token of the OAuth response, or the
   fallback to mock values when the request fails; both globals are assigned *)
authenticate(i, ok) ==
    IF ok
    THEN [ access_token |-> "token_" \o ToString(i),
           instance_url |-> "https://org.my.salesforce.com" ]
    ELSE [ access_token |-> "mock_access_token",
           instance_url |-> "https://mock.salesforce.com" ]

(* `if not _instance_url: authenticate()` / `if not _access_token: authenticate()` *)
CredentialUnset == access_token = "None" \/ instance_url = "None"

(* variant of get_lead_by_id with a single-flight guard: a thread that finds
   the credential unset while another thread is authenticating does not
   authenticate itself *)
get_lead_by_id_single_flight(i) ==
    LET t == threads[i]
        in_flight == \E j \in Threads \ {i} : threads[j].pc = "LazyAuthenticate"
    IN  IF is_mock_mode
        THEN [ t EXCEPT !.pc = "Authenticate", !.lead = MockLead ]
        ELSE IF CredentialUnset /\ ~in_flight
        THEN [ t EXCEPT !.pc = "LazyAuthenticate", !.observed_unset = TRUE ]
        ELSE [ t EXCEPT !.pc = "RequestLead" ]

(* salesforce.get_lead_by_id up to its HTTP request: the thread after the
   mock test and the lazy check of _get_api_url / _get_headers *)
get_lead_by_id(i) ==
    LET t == threads[i]
    IN  IF is_mock_mode
        THEN [ t EXCEPT !.pc = "Authenticate", !.lead = MockLead ]
        ELSE IF CredentialUnset
        THEN [ t EXCEPT !.pc = "LazyAuthenticate", !.observed_unset = TRUE ]
        ELSE [ t EXCEPT !.pc = "RequestLead" ]

ConcurrentSapResults == {"bp_not_found", "bp_good"}

LeadByIdResults == {"found", "not_found", "raise"}

InitialThread(kind) ==
    [ kind |-> kind,
      pc |-> IF kind = "by_id" THEN "GetLeadById" ELSE "Authenticate",
      lead |-> EmptyDict,
      state |-> EmptyDict,
      own_auth |-> "none",
      observed_unset |-> FALSE,
      lazy_auth |-> FALSE ]

InitConcurrent ==
    /\ pipeline = "lead_concurrent"
    /\ pc = "idle"
    /\ state = EmptyDict
    /\ state2 = EmptyDict
    /\ executed = <<>>
    /\ updates = <<>>
    /\ smart_calls = 0
    /\ chain_outcome = "none"
    /\ HarnessIdle
    /\ access_token = "None"
    /\ instance_url = "None"
    /\ \E kinds \in [Threads -> {"by_id", "newest"}] :
          threads = [ i \in Threads |-> InitialThread(kinds[i]) ]

GetLeadById(i) ==
    /\ threads[i].pc = "GetLeadById"
    /\ threads' = [ threads EXCEPT ![i] = get_lead_by_id(i) ]
    /\ UNCHANGED <<access_token, instance_url, runVars, harnessVars>>

LazyAuthenticate(i) ==
    /\ threads[i].pc = "LazyAuthenticate"
    /\ \E ok \in BOOLEAN :
          /\ access_token' = authenticate(i, ok).access_token
          /\ instance_url' = authenticate(i, ok).instance_url
    /\ threads' = [ threads EXCEPT ![i].pc = "RequestLead", ![i].lazy_auth = TRUE ]
    /\ UNCHANGED <<runVars, harnessVars>>

(* requests.get of get_lead_by_id and the handler's 404; with the fallback
   token the request goes to the mock URL and fails *)
RequestLead(i) ==
    /\ threads[i].pc = "RequestLead"
    /\ \E answer \in (IF is_mock_mode THEN {"raise"} ELSE LeadByIdResults) :
          threads' = [ threads EXCEPT ![i] =
                         IF answer = "found"
                         THEN [ @ EXCEPT !.pc = "Authenticate", !.lead = LeadHot ]
                         ELSE [ @ EXCEPT !.pc = "FAILED" ] ]
    /\ UNCHANGED <<access_token, instance_url, runVars, harnessVars>>

(* run_lead_qualification up to graph.invoke: authenticate(), initial state *)
Authenticate(i) ==
    /\ threads[i].pc = "Authenticate"
    /\ \E ok \in BOOLEAN :
          /\ access_token' = authenticate(i, ok).access_token
          /\ instance_url' = authenticate(i, ok).instance_url
          /\ threads' = [ threads EXCEPT
                            ![i].pc = "FetchLead",
                            ![i].own_auth = IF ok THEN "ok" ELSE "fail",
                            ![i].state = create_initial_lead_state(threads[i].lead, FALSE) ]
    /\ UNCHANGED <<runVars, harnessVars>>

ThreadRunNode(i, node, res) ==
    /\ threads[i].pc = node
    /\ threads' = [ threads EXCEPT ![i] =
                      IF res.raised
                      THEN [ @ EXCEPT !.pc = "FAILED" ]
                      ELSE [ @ EXCEPT !.pc = NextNode("lead", node),
                                      !.state = Merge(@, res.update) ] ]
    /\ UNCHANGED <<access_token, instance_url, runVars, harnessVars>>

(* in mock mode get_new_leads returns MOCK_LEADS[:1] and never raises *)
ThreadFetchLead(i) ==
    /\ threads[i].pc = "FetchLead"
    /\ \E sf \in (IF is_mock_mode
                  THEN { [ fail |-> FALSE, records |-> <<MockLead>> ] }
                  ELSE SfLeadResults) :
          ThreadRunNode(i, "FetchLead", fetch_lead(threads[i].state, sf))

ThreadEnrichLead(i) ==
    /\ threads[i].pc = "EnrichLead"
    /\ \E sap \in ConcurrentSapResults :
          ThreadRunNode(i, "EnrichLead", enrich_lead(threads[i].state, sap))

ThreadScoreLead(i) ==
    /\ threads[i].pc = "ScoreLead"
    /\ ThreadRunNode(i, "ScoreLead", score_lead(threads[i].state, "raise"))

ThreadDecideRouting(i) ==
    /\ threads[i].pc = "DecideRouting"
    /\ ThreadRunNode(i, "DecideRouting", decide_routing(threads[i].state))

(* in mock mode the Salesforce writes never raise *)
ThreadExecuteActions(i) ==
    /\ threads[i].pc = "ExecuteActions"
    /\ \E fail_at \in (IF is_mock_mode THEN {"none"} ELSE {"none", "create_task"}) :
          ThreadRunNode(i, "ExecuteActions",
                        lead_execute_actions(threads[i].state,
                                             [ fail_at |-> fail_at, email_ok |-> TRUE ]))

NextConcurrent ==
    \E i \in Threads :
        \/ GetLeadById(i)
        \/ LazyAuthenticate(i)
        \/ RequestLead(i)
        \/ Authenticate(i)
        \/ ThreadFetchLead(i)
        \/ ThreadEnrichLead(i)
        \/ ThreadScoreLead(i)
        \/ ThreadDecideRouting(i)
        \/ ThreadExecuteActions(i)

SpecConcurrent == InitConcurrent /\ [][NextConcurrent]_vars

(* C18 as stated: with two runs executing concurrently, under every
   interleaving each run's final WorkflowState equals the state the run would
   produce alone.  Alone, a run whose own authenticate() succeeded reads the
   newest lead from the Salesforce org (never the demo record), and a run
   whose own authenticate() fell back to mock mode reads MOCK_LEADS[0]. *)
C18_RunEqualsRunAlone ==
    \A i \in DOMAIN threads :
        (threads[i].kind = "newest" /\ threads[i].pc = "END") =>
            /\ threads[i].own_auth = "ok" => threads[i].state.lead # MockLead
            /\ threads[i].own_auth = "fail" => threads[i].state.lead = MockLead

(* C19: the cached Salesforce credential is lazily initialised and not
   synchronised.  A thread that finds it unset on first use goes on to
   execute authenticate() whatever the other thread is doing (there is no
   single-flight guard), and every authenticate() it executes overwrites the
   shared token and instance URL with its own result. *)
C19_NoSingleFlightGuard ==
    [][ \A i \in Threads :
          /\ ( /\ threads[i].pc = "GetLeadById"
               /\ threads'[i].pc # "GetLeadById"
               /\ ~is_mock_mode
               /\ CredentialUnset )
             => /\ threads'[i].pc = "LazyAuthenticate"
                /\ threads'[i].observed_unset
          /\ ( /\ threads[i].pc \in {"LazyAuthenticate", "Authenticate"}
               /\ threads'[i].pc # threads[i].pc )
             => \E ok \in BOOLEAN :
                   /\ access_token' = authenticate(i, ok).access_token
                   /\ instance_url' = authenticate(i, ok).instance_url ]_vars

(* both threads found the credential unset and are inside authenticate() *)
C19_Witness ==
    /\ pipeline = "lead_concurrent"
    /\ \A i \in Threads :
          /\ threads[i].pc = "LazyAuthenticate"
          /\ threads[i].observed_unset
    /\ access_token = "None"

(* both executed it; the second overwrote the token the first had stored *)
C19_WitnessOverwritten ==
    /\ pipeline = "lead_concurrent"
    /\ \A i \in Threads : threads[i].lazy_auth
    /\ threads[1].pc = "RequestLead"
    /\ threads[2].pc = "RequestLead"
    /\ access_token = "token_2"

(* the fields of the WorkflowStates declared without a reducer *)
ReplaceFields ==
    {"score", "category", "route", "decision", "llm_analysis", "classification",
     "enriched", "sap_context"}

(* C20: at every point of a run each replace field that some completed step
   returned holds exactly the value returned by the last such step: the
   previous value is replaced entirely, without key-wise merging, so keys of
   the earlier value that the update lacks are gone. *)
C20_ReplaceFieldsHoldLastUpdate ==
    pipeline \in Pipelines =>
        \A k \in ReplaceFields :
            LET writers == { i \in 1..Len(updates) : k \in DOMAIN updates[i] }
            IN  writers # {} =>
                    /\ k \in DOMAIN state
                    /\ state[k] = updates[Max(writers)][k]

(* the complaint decision of the final state is the one ExecuteActions
   returned, not the one DecideAction returned *)
C20_Witness ==
    /\ pipeline = "complaint"
    /\ Completed
    /\ "decision" \in DOMAIN UpdateOf("ExecuteActions")
    /\ state.decision = UpdateOf("ExecuteActions").decision
    /\ state.decision # UpdateOf("DecideAction").decision
    /\ state.decision.email_sent

(* the no-content update of CategorizeTicket replaces the initial
   llm_analysis: its other keys are gone *)
C20_WitnessKeysGone ==
    /\ pipeline = "ticket"
    /\ Ran("CategorizeTicket")
    /\ DOMAIN state.llm_analysis = {"reasoning"}

----------------------------------------------------------------------------
(* C21: in a lead run, once FetchLead has completed, the lead record and the
   use_llm flag keep their value through every later step up to the final
   state: no later update contains them and no later step changes them. *)
C21_LeadAndFlagFrozenAfterFetch ==
    /\ [](pipeline = "lead" =>
            \A i \in 2..Len(updates) :
                "lead" \notin DOMAIN updates[i] /\ "use_llm" \notin DOMAIN updates[i])
    /\ [][(pipeline = "lead" /\ Ran("FetchLead")) =>
            (state'.lead = state.lead /\ state'.use_llm = state.use_llm)]_vars

(* a completed LLM run on a fetched lead: it still holds the fetched record *)
C21_Witness ==
    /\ pipeline = "lead"
    /\ Completed
    /\ "lead" \in DOMAIN UpdateOf("FetchLead")
    /\ state.lead = UpdateOf("FetchLead").lead
    /\ state.lead # EmptyDict
    /\ state.use_llm
    /\ Truthy(state.enriched)

----------------------------------------------------------------------------
(* the enrichment step of each pipeline that has one *)
EnrichmentNode ==
    [ p \in {"lead", "ticket"} |-> IF p = "lead" THEN "EnrichLead" ELSE "RetrieveContext" ]

(* C22: in every pipeline the enrichment step completes before the
   score/classify step starts, so the decision step sees the enrichment of
   the same run; in ticket triage the SAP context retrieval precedes the
   ticket categorization. *)
C22_EnrichmentBeforeDecision ==
    pipeline \in DOMAIN EnrichmentNode =>
        \A i \in 1..Len(executed) :
            executed[i] \in DecisionNodes =>
                \E j \in 1..(i - 1) : executed[j] = EnrichmentNode[pipeline]

----------------------------------------------------------------------------
(* execute_actions of the lead graph on the states DecideRouting hands it.
   The lead is the caller's record or {} (nothing supplied, nothing found);
   the score is what ScoreLead stored from the scoring chain's answer. *)

ActionScores == {0, 4500, 5999, 6000, 7500, 9000, 15000}

StatesBeforeExecuteActions ==
    { LET initial == create_initial_lead_state(lead, TRUE)
          fetched == Merge(initial, fetch_lead(initial, [ fail |-> FALSE, records |-> <<>> ]).update)
          enriched == Merge(fetched, enrich_lead(fetched, sap).update)
          scored == IF lead = EmptyDict
                    THEN Merge(enriched, score_lead(enriched, "complete").update)
                    ELSE
                    Merge(enriched,
                          [ score |-> score,
                            llm_analysis |->
                                [ reasoning |-> "Strong fit", confidence |-> 8500,
                                  key_factors |-> <<"size", "title">>,
                                  recommended_action |-> "Call today",
                                  model_used |-> "gpt-4o-mini" ],
                            actions_done |-> << "score_lead:llm:score=" \o ToString(score) >> ])
      IN  Merge(scored, decide_routing(scored).update) :
        <<lead, sap, score>> \in
            { t \in {LeadHot, LeadCold, LeadNoCompany, EmptyDict}
                       \X {"bp_not_found", "bp_good"} \X ActionScores :
                t[1] = EmptyDict => t[3] = 0 } }

InitLeadActions ==
    /\ RunIdle
    /\ fn = "execute_actions"
    /\ args \in [ st : StatesBeforeExecuteActions, env : LeadActionResults ]
    /\ result = EmptyDict

CallLeadExecuteActions ==
    /\ fn = "execute_actions"
    /\ result = EmptyDict
    /\ result' = lead_execute_actions(args.st, args.env)
    /\ UNCHANGED <<fn, args, runVars, moduleVars>>

SpecLeadActions == InitLeadActions /\ [][CallLeadExecuteActions]_vars

(* what the call adds to actions_done: nothing when it raised *)
LeadActionsContribution ==
    IF result.raised THEN <<>> ELSE result.update.actions_done

IsLeadAlertEntry(entry) ==
    entry \in {"email:lead_alert:" \o ResendConfig.notification_email,
               "email:lead_alert:failed"}

(* C23: when no CRM or ERP call fails, ExecuteActions records an
   email:lead_alert entry (sent or failed) exactly when the lead has an Id and
   the score in the state is >= 0.60, and that entry is the last of its
   contribution. *)
C23_AlertEntryIffHighValue ==
    (fn = "execute_actions" /\ Called /\ args.env.fail_at = "none") =>
        LET entries == LeadActionsContribution
            alerts == { i \in 1..Len(entries) : IsLeadAlertEntry(entries[i]) }
        IN  /\ (alerts # {}) <=>
                   (Get(args.st.lead, "Id", "") # "" /\ args.st.score >= 6000)
            /\ alerts \subseteq {Len(entries)}

----------------------------------------------------------------------------
(* C24: in every completed lead run the route's owner_type and priority in
   the final state are exactly those the routing thresholds give for the
   final state's score (>= 0.75 AE/P1, >= 0.45 SDR/P2, else Nurture/P3), on
   every scoring path; the priority the scoring chain returned has no
   influence on the route. *)
C24_RouteMatchesFinalScore ==
    (pipeline = "lead" /\ Completed) =>
        LET band == <<state.route.owner_type, state.route.priority>>
        IN  /\ state.score >= 7500 => band = <<"AE", "P1">>
            /\ (state.score >= 4500 /\ state.score < 7500) => band = <<"SDR", "P2">>
            /\ state.score < 4500 => band = <<"Nurture", "P3">>

(* the chain answered score 0.33 with priority P1, the score was stored from
   the chain's answer, and the completed run routed the lead Nurture / P3 *)
C24_Witness ==
    /\ pipeline = "lead"
    /\ Completed
    /\ chain_outcome = "low_but_p1"
    /\ LeadChain(chain_outcome).out.priority = JStr("P1")
    /\ state.llm_analysis.model_used = "gpt-4o-mini"
    /\ state.score = 3300
    /\ state.route.owner_type = "Nurture"
    /\ state.route.priority = "P3"

(* the rule-based path of a completed run, routed AE / P1 *)
C24_WitnessRules ==
    /\ pipeline = "lead"
    /\ Completed
    /\ state.llm_analysis.model_used = "rule-based"
    /\ state.score >= 7500
    /\ state.route.priority = "P1"

----------------------------------------------------------------------------
(* Concurrent calls of salesforce.authenticate() with real credentials
   configured, statement by statement: the OAuth request (which succeeds or
   raises into the mock fallback), then `_access_token = ...`, then
   `_instance_url = ...`.  The two globals are assigned by two statements, so
   another thread can run between them. *)

MaxAuthCalls == 2

InitAuthenticate ==
    /\ pipeline = "authenticate"
    /\ pc = "idle"
    /\ state = EmptyDict
    /\ state2 = EmptyDict
    /\ executed = <<>>
    /\ updates = <<>>
    /\ smart_calls = 0
    /\ chain_outcome = "none"
    /\ HarnessIdle
    /\ access_token = "None"
    /\ instance_url = "None"
    /\ threads = [ i \in Threads |-> [ pc |-> "idle", ok |-> FALSE, calls |-> 0 ] ]

(* requests.post(...).raise_for_status(): returns, or raises into the except *)
OAuthRequest(i) ==
    /\ threads[i].pc = "idle"
    /\ threads[i].calls < MaxAuthCalls
    /\ \E ok \in BOOLEAN :
          threads' = [ threads EXCEPT ![i].pc = "assign_access_token",
                                      ![i].ok = ok,
                                      ![i].calls = @ + 1 ]
    /\ UNCHANGED <<access_token, instance_url, runVars, harnessVars>>

(* _access_token = data["access_token"]   /   _access_token = "mock_access_token" *)
AssignAccessToken(i) ==
    /\ threads[i].pc = "assign_access_token"
    /\ access_token' = authenticate(i, threads[i].ok).access_token
    /\ threads' = [ threads EXCEPT ![i].pc = "assign_instance_url" ]
    /\ UNCHANGED <<instance_url, runVars, harnessVars>>

(* _instance_url = data.get("instance_url") or ...   /   _instance_url = mock URL *)
AssignInstanceUrl(i) ==
    /\ threads[i].pc = "assign_instance_url"
    /\ instance_url' = authenticate(i, threads[i].ok).instance_url
    /\ threads' = [ threads EXCEPT ![i].pc = "idle" ]
    /\ UNCHANGED <<access_token, runVars, harnessVars>>

NextAuthenticate ==
    \E i \in Threads :
        \/ OAuthRequest(i)
        \/ AssignAccessToken(i)
        \/ AssignInstanceUrl(i)

SpecAuthenticate == InitAuthenticate /\ [][NextAuthenticate]_vars

(* every authenticate() call that started has returned *)
NoAuthenticateInFlight == \A i \in Threads : threads[i].pc = "idle"

(* C25: after any interleaving of concurrent authenticate() calls, some
   succeeding and some falling back to mock mode, the cached pair is
   consistent: the token is the mock token exactly when the instance URL is
   the mock URL. *)
C25_CredentialPairConsistent ==
    (pipeline = "authenticate" /\ NoAuthenticateInFlight /\ access_token # "None") =>
        (access_token = "mock_access_token" <=> instance_url = "https://mock.salesforce.com")

----------------------------------------------------------------------------
(* C26: if the caller supplies a non-empty lead record, the record source is
   not asked for a new lead and the run keeps the supplied record: FetchLead
   completes and leaves the lead of the state as it was. *)
C26_SuppliedLeadIsKept ==
    [][(pipeline = "lead" /\ pc = "FetchLead" /\ Truthy(state.lead)) =>
            (pc' = "EnrichLead" /\ state'.lead = state.lead)]_vars

----------------------------------------------------------------------------
(* FetchLead asked the record source and it returned no lead *)
NoLeadFound ==
    /\ pipeline = "lead"
    /\ Len(updates) >= 1
    /\ updates[1].actions_done = << "fetch_lead:none_found" >>

(* C27: when no lead is supplied and the record source returns none, no later
   step fails, and the completed run has score 0.0 and made no CRM or ERP
   write and sent no email: the actions recorded are the five no-lead
   entries, the contribution of ExecuteActions being exactly
   execute_actions:no_lead. *)
C27_NoLeadRunDoesNothing ==
    NoLeadFound =>
        /\ ~Aborted
        /\ state.lead = EmptyDict
        /\ Completed =>
              /\ state.score = 0
              /\ UpdateOf("ExecuteActions").actions_done = << "execute_actions:no_lead" >>
              /\ state.actions_done =
                    << "fetch_lead:none_found", "enrich_lead:no_company",
                       "score_lead:no_lead", "decide_routing:Nurture:P3",
                       "execute_actions:no_lead" >>

C27_Witness ==
    /\ NoLeadFound
    /\ Completed
    /\ state.use_llm
    /\ state.score = 0
    /\ smart_calls = 0
    /\ UpdateOf("ExecuteActions").actions_done = << "execute_actions:no_lead" >>

----------------------------------------------------------------------------
(* C28: in a ticket run, whenever the category is outage or security the
   decision action is escalate, whatever the LLM analysis contains: the
   analysis can turn a non-escalate action into escalate but never turns
   escalate into another action; and in a completed run sf:escalate is in
   actions_done exactly when the action is escalate and the case has an Id. *)
C28_OutageAndSecurityEscalate ==
    (pipeline = "ticket" /\ Ran("DecideAction")) =>
        LET rule == determine_ticket_action(state.category, state.kb_suggestions)
            action == state.decision.action
            escalated == \E i \in 1..Len(state.actions_done) :
                            state.actions_done[i] =
                                "sf:escalate:" \o RoutingConfig.escalation_owner_id
        IN  /\ state.category \in {"outage", "security"} => action = "escalate"
            /\ rule.action = "escalate" => action = "escalate"
            /\ action # rule.action => action = "escalate"
            /\ Completed =>
                  (escalated <=> (action = "escalate" /\ Get(state.case, "Id", "") # ""))

(* the LLM categorised the ticket as outage, required no escalation and
   supplied its own response; the completed run escalated the case *)
C28_Witness ==
    /\ pipeline = "ticket"
    /\ Completed
    /\ chain_outcome = "outage_calm"
    /\ state.category = "outage"
    /\ state.llm_analysis.model_used # "rule-based"
    /\ ~JTruthy(state.llm_analysis.requires_escalation)
    /\ state.decision.action = "escalate"
    /\ \E i \in 1..Len(state.actions_done) :
          state.actions_done[i] = "sf:escalate:" \o RoutingConfig.escalation_owner_id

(* the LLM analysis turned the rule's auto_reply or request_info into escalate *)
C28_WitnessOverride ==
    /\ pipeline = "ticket"
    /\ Completed
    /\ state.category = "howto"
    /\ determine_ticket_action(state.category, state.kb_suggestions).action # "escalate"
    /\ state.decision.action = "escalate"

----------------------------------------------------------------------------
(* C29: in a completed complaint run on a case with an Id the decision and
   the executed actions agree on the IT path: a redirect:it_portal entry is in
   actions_done exactly when the decision action is email_services_agent, for
   every combination of is_product_complaint and is_it_support. *)
C29_RedirectIffServicesAgent ==
    (pipeline = "complaint" /\ Completed /\ Get(state.case, "Id", "") # "") =>
        LET redirected ==
                \E i \in 1..Len(state.actions_done) :
                    state.actions_done[i] =
                        "redirect:it_portal:" \o ResendConfig.it_support_url
        IN  redirected <=> state.decision.action = "email_services_agent"

----------------------------------------------------------------------------
(* ClassifyComplaint returned the unclassifiable result for a case with an Id *)
UnclassifiableCase ==
    /\ pipeline = "complaint"
    /\ Ran("ClassifyComplaint")
    /\ UpdateOf("ClassifyComplaint") = ComplaintNoContent
    /\ Get(state.case, "Id", "") # ""

(* C30: when a complaint case has an Id but neither subject nor description
   (the unclassifiable result, confidence 0.0), the run routes the case to
   nobody and sends no notification email: the decision action is neither
   email_product_expert nor email_services_agent and no email entry is
   recorded. *)
C30_UnclassifiableRoutedToNobody ==
    (UnclassifiableCase /\ Ran("DecideAction")) =>
        /\ state.decision.action \notin {"email_product_expert", "email_services_agent"}
        /\ \A i \in 1..Len(state.actions_done) :
              state.actions_done[i] \notin
                  { "email:" \o a \o ":" \o r :
                      a \in {"email_product_expert", "email_services_agent"},
                      r \in {"failed", ResendConfig.product_expert_email,
                             ResendConfig.notification_email} }

====
